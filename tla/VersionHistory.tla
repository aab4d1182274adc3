---------------------------- MODULE VersionHistory ----------------------------
(***************************************************************************)
(* What a workflow lineage promises: a history to which versions are only  *)
(* appended, and a head that is one of its versions.  A new version is the *)
(* head; the head may move to any other version; the lineage goes as a     *)
(* whole or not at all.                                                    *)
(***************************************************************************)
EXTENDS Naturals, Sequences

CONSTANTS Configs

VARIABLES
  history,       \* the configs of the versions 1, 2, ...; empty once deleted
  head           \* the number of the head version, 0 once deleted

Init ==
  \E c \in Configs : history = <<c>> /\ head = 1

AppendVersion(c) ==
  /\ history # <<>>
  /\ history' = Append(history, c)
  /\ head' = Len(history')

MoveHead(n) ==
  /\ n \in 1..Len(history)
  /\ head' = n
  /\ UNCHANGED history

DeleteLineage ==
  /\ history' = <<>>
  /\ head' = 0

Next ==
  \/ \E c \in Configs : AppendVersion(c)
  \/ \E n \in 1..Len(history) : MoveHead(n)
  \/ DeleteLineage

Spec == Init /\ [][Next]_<<history, head>>

==============================================================================
