\* Tiles that arrive unreadable, and tiles with a wrong hash.
SPECIFICATION Spec
CONSTANTS
  Content = {px1, px2}
  Size = Size
  OtherSize = OtherSize
  Unsent = Unsent
  NoSize = NoSize
  NoImage = NoImage
PROPERTY DamageIsRepaired
CHECK_DEADLOCK FALSE
