-------------------------- MODULE ClipboardHistory --------------------------
(***************************************************************************)
(* The history of the clipboard, src/src/app/clipboard_history.cpp, and    *)
(* the menu of src/src/ui/clipboard_history_widget.cpp: newest first, kept *)
(* in a file, the oldest cut off unless the user marked them.  Entries are *)
(* their contents: the same content is entered once.                       *)
(***************************************************************************)
EXTENDS Naturals, Sequences, SequencesExt, FiniteSetsExt

CONSTANTS
  Clips,      \* contents
  MaxEntries, \* m_maxEntries, 50
  Slack       \* how many more there may be when the last is marked, 10

VARIABLES
  entries, \* m_entries: content and mark
  file,    \* what is saved
  open     \* the program runs

vars == <<entries, file, open>>

Init == entries = <<>> /\ file = <<>> /\ open = TRUE

Marked(list) == {list[i].clip : i \in {j \in DOMAIN list : list[j].favorite}}

\* Mutant: the oldest goes, marked or not.
PruneOldest(list) == SubSeq(list, 1, IF Len(list) < MaxEntries THEN Len(list) ELSE MaxEntries)

\* Unmarked entries at the end are removed down to MaxEntries.
Trimmed(list) ==
  SubSeq(list, 1, Max({Min({Len(list), MaxEntries})} \cup {i \in DOMAIN list : list[i].favorite}))

\* Marked entries at the end are moved to the front, the last one first.
Turned(list) ==
  LET k == Max({i \in DOMAIN list : ~list[i].favorite})
  IN  SubSeq(list, k + 1, Len(list)) \o SubSeq(list, 1, k)

\* pruneOldEntries, which nobody calls for a list longer than by one than the slack
\* allows: only such a list is turned, and once.
Prune(list) ==
  IF Len(list) <= MaxEntries + Slack THEN Trimmed(list) ELSE Trimmed(Turned(list))

Saved == file' = entries'

AddEntry(c) ==
  /\ open /\ \A i \in DOMAIN entries : entries[i].clip # c
  /\ entries' = Prune(<<[clip |-> c, favorite |-> FALSE]>> \o entries)
  /\ Saved /\ UNCHANGED open

RemoveEntry(i) == open /\ entries' = RemoveAt(entries, i) /\ Saved /\ UNCHANGED open

ToggleFavorite(i) ==
  /\ open
  /\ entries' = [entries EXCEPT ![i].favorite = ~@]
  /\ Saved /\ UNCHANGED open

Clear == open /\ entries # <<>> /\ entries' = <<>> /\ Saved /\ UNCHANGED open

\* The program ends, in order or not, and loads the file when it starts.
Close == open /\ open' = FALSE /\ entries' = <<>> /\ UNCHANGED file
Load == ~open /\ open' = TRUE /\ entries' = file /\ UNCHANGED file

Next ==
  \/ \E c \in Clips : AddEntry(c)
  \/ \E i \in DOMAIN entries : RemoveEntry(i) \/ ToggleFavorite(i)
  \/ Clear \/ Close \/ Load

Spec == Init /\ [][Next]_vars

-----------------------------------------------------------------------------
(* A copy never pushes out what the user marked, however often the list is *)
(* turned round to find something else, and the list keeps within its      *)
(* slack, over restarts too.  (pruneOldEntries, clipboard_history.cpp:191) *)
HistoryKeepsMarked ==
  [][\/ Marked(entries) = Marked(entries') /\ Len(entries') <= MaxEntries + Slack
     \/ ~\E c \in Clips : AddEntry(c)]_vars
=============================================================================
