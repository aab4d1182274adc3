--------------------------- MODULE WorkflowVersions ---------------------------
(***************************************************************************)
(* The versions of one workflow lineage and the benchmark definitions that *)
(* are pinned to them (apps/backend-services/src/workflow/ and             *)
(* src/benchmark/benchmark-definition.service.ts).                         *)
(*                                                                         *)
(* Three requests append a version: an edit, the promotion of a candidate  *)
(* into the definition that was measured with it, and its application to   *)
(* the base lineage.  Each reads the number of its version in the          *)
(* transaction that inserts it; under READ COMMITTED other transactions    *)
(* commit in between, and the unique (lineage_id, version_number) refuses  *)
(* a number that is taken.  A step of the model is such a read or such a   *)
(* commit.  Every number, config and pin that is read is kept in `request' *)
(* until it is used.                                                       *)
(***************************************************************************)
EXTENDS Naturals

CONSTANTS
  Requests,
  Configs,
  NoConfig,
  Definitions,
  NoDefinition,
  MaxVersions,   \* a bound: no request is begun beyond it
  MaxAttempts    \* WORKFLOW_VERSION_APPEND_MAX_ATTEMPTS and
                 \* PROMOTE_WORKFLOW_VERSION_MAX_ATTEMPTS

ASSUME NoConfigAssumption == NoConfig \notin Configs
ASSUME NoDefinitionAssumption == NoDefinition \notin Definitions
ASSUME MaxVersionsAssumption == MaxVersions \in Nat \ {0}
ASSUME MaxAttemptsAssumption == MaxAttempts \in Nat \ {0}

VARIABLES
  config,        \* version_number -> its config, NoConfig without a version
  head,          \* the number of the head version, 0 without a lineage
  pin,           \* definition -> the version it pins, 0 outside the lineage
  request        \* the requests that append a version

vars == <<config, head, pin, request>>

Numbers == 1..MaxVersions

Taken == {n \in Numbers : config[n] # NoConfig}

Kinds == {"edit", "promote", "apply"}

Idle ==
  [at |-> "idle", kind |-> "edit", config |-> NoConfig,
   definition |-> NoDefinition, attempt |-> 1, next |-> 1, head |-> 0,
   since |-> 0, behind |-> FALSE]

TypeOK ==
  /\ config \in [Numbers -> Configs \cup {NoConfig}]
  /\ head \in Taken \cup {0}
  /\ pin \in [Definitions -> Taken \cup {0}]
  /\ request \in [Requests ->
       [at : {"idle", "read", "commit"}, kind : Kinds,
        config : Configs \cup {NoConfig},
        definition : Definitions \cup {NoDefinition},
        attempt : 1..MaxAttempts, next : 1..(MaxVersions + 1),
        head : 0..MaxVersions, since : 0..MaxVersions, behind : BOOLEAN]]

\* The lineage is created with its first version, the head (createWorkflow).
Init ==
  /\ \E c \in Configs :
       config = [n \in Numbers |-> IF n = 1 THEN c ELSE NoConfig]
  /\ head = 1
  /\ pin = [d \in Definitions |-> 0]
  /\ request = [r \in Requests |-> Idle]

------------------------------------------------------------------------------
IsNewest(n) ==
  /\ n \in Taken \cup {0}
  /\ \A m \in Taken : m <= n

\* A request that appends is begun; `since' and `behind' only remember, for
\* the properties, the newest version at the begin and whether an attempt of
\* an edit has read a head behind the newest version.
Begin(r, kind, c, d) ==
  /\ request[r] = Idle
  /\ head # 0
  /\ (kind = "promote") = (d # NoDefinition)
  /\ \E n \in Numbers :
       /\ IsNewest(n)
       /\ request' = [request EXCEPT ![r] =
            [Idle EXCEPT !.at = "read", !.kind = kind, !.config = c,
                         !.definition = d, !.since = n]]
  /\ UNCHANGED <<config, head, pin>>

Finish(r) == request' = [request EXCEPT ![r] = Idle]

\* Nothing is appended: the lineage is gone, the head has this config already,
\* or the definition does not pin the head.
Refused(r) ==
  \/ head = 0
  \/ /\ request[r].kind = "edit"
     /\ \E n \in Taken : n = head /\ config[n] = request[r].config
  \/ request[r].kind = "promote" /\ pin[request[r].definition] # head

ReadAndRefuse(r) ==
  /\ request[r].at = "read"
  /\ Refused(r)
  /\ Finish(r)
  /\ UNCHANGED <<config, head, pin>>

\* An edit counts from the head, the others from the newest version.
NextNumber(r, newest) ==
  IF request[r].kind = "edit" THEN head + 1 ELSE newest + 1

ReadNumber(r) ==
  /\ request[r].at = "read"
  /\ ~Refused(r)
  /\ \E newest \in Numbers :
       /\ IsNewest(newest)
       /\ NextNumber(r, newest) <= MaxVersions
       /\ request' = [request EXCEPT
            ![r].at = "commit", ![r].next = NextNumber(r, newest),
            ![r].head = IF request[r].kind = "promote" THEN head ELSE 0,
            ![r].behind = @ \/ (request[r].kind = "edit" /\ head < newest)]
  /\ UNCHANGED <<config, head, pin>>

\* Mutant of NumberIsTaken: nothing makes the number unique.
NumberIsNeverTaken(r) == FALSE

NumberIsTaken(r) == request[r].next \in Taken

Commit(r) ==
  LET q == request[r] IN
  /\ q.at = "commit"
  /\ head # 0
  /\ ~NumberIsTaken(r)
  /\ config' = [config EXCEPT ![q.next] = q.config]
  /\ head' = q.next
  /\ pin' = IF q.kind = "promote"
              THEN [d \in Definitions |-> IF pin[d] = q.head THEN q.next ELSE pin[d]]
              ELSE pin
  /\ Finish(r)

\* The application of a candidate is not repeated.
Tries(r) == request[r].kind # "apply" /\ request[r].attempt < MaxAttempts

\* Mutant of Retry: the number is not read again.
RetryWithSameNumber(r) ==
  /\ request[r].at = "commit" /\ head # 0
  /\ NumberIsTaken(r)
  /\ Tries(r)
  /\ request' = [request EXCEPT ![r].attempt = @ + 1]
  /\ UNCHANGED <<config, head, pin>>

Retry(r) ==
  /\ request[r].at = "commit" /\ head # 0
  /\ NumberIsTaken(r)
  /\ Tries(r)
  /\ request' = [request EXCEPT ![r].at = "read", ![r].attempt = @ + 1]
  /\ UNCHANGED <<config, head, pin>>

\* The error of the database goes to the client.
Reject(r) ==
  /\ request[r].at = "commit" /\ head # 0
  /\ NumberIsTaken(r)
  /\ ~Tries(r)
  /\ Finish(r)
  /\ UNCHANGED <<config, head, pin>>

\* The lineage was deleted between the read and the commit.
CommitFails(r) ==
  /\ request[r].at = "commit" /\ head = 0
  /\ Finish(r)
  /\ UNCHANGED <<config, head, pin>>

------------------------------------------------------------------------------
\* revertHeadToVersion: an update of the lineage's row that looks at nothing.
RevertHead(n) ==
  /\ n \in Taken \ {head}
  /\ head' = n
  /\ UNCHANGED <<config, pin, request>>

\* A definition is created or edited with a version of the lineage, or leaves
\* it (is deleted, or pins another workflow).
Pin(d, n) ==
  /\ n \in (Taken \cup {0}) \ {pin[d]}
  /\ pin' = [pin EXCEPT ![d] = n]
  /\ UNCHANGED <<config, head, request>>

\* Mutant of DeleteWorkflow: the definitions lose their pins with the lineage.
DeleteWorkflowDespitePins ==
  /\ head # 0
  /\ config' = [n \in Numbers |-> NoConfig]
  /\ head' = 0
  /\ pin' = [d \in Definitions |-> 0]
  /\ UNCHANGED request

\* A definition that pins a version restricts the deletion of its lineage.
DeleteWorkflow ==
  /\ head # 0
  /\ \A d \in Definitions : pin[d] = 0
  /\ config' = [n \in Numbers |-> NoConfig]
  /\ head' = 0
  /\ UNCHANGED <<pin, request>>

RequestStep(r) ==
  \/ \E kind \in Kinds, c \in Configs, d \in Definitions \cup {NoDefinition} :
       Begin(r, kind, c, d)
  \/ ReadAndRefuse(r) \/ ReadNumber(r)
  \/ Commit(r) \/ Retry(r) \/ Reject(r) \/ CommitFails(r)

Next ==
  \/ \E r \in Requests : RequestStep(r)
  \/ \E n \in Numbers : RevertHead(n)
  \/ \E d \in Definitions, n \in 0..MaxVersions : Pin(d, n)
  \/ DeleteWorkflow

Spec == Init /\ [][Next]_vars

------------------------------------------------------------------------------
Newest == CHOOSE n \in 0..MaxVersions : \A m \in Numbers : m \in Taken <=> m <= n

History ==
  INSTANCE VersionHistory WITH history <- [n \in 1..Newest |-> config[n]]

\* Whatever requests race, and wherever the head is put meanwhile, the
\* lineage is a history to which versions are only appended, without a gap
\* and without ever rewriting one, and its head is one of them.
ImplementsHistory == History!Spec

\* An edit, whose loop gives up after its last attempt, is only rejected when
\* one of its attempts read a head that a revert had put behind the newest
\* version, or when as many versions as it has attempts were appended by
\* others since it began; a promotion is only rejected in the latter case.
RejectedOnlyWhenOvertaken ==
  [][\A r \in Requests :
       Reject(r) /\ request[r].kind # "apply" =>
         \/ request[r].behind
         \/ (request[r].since + MaxAttempts) \in Taken]_vars

\* The config of a version that a benchmark definition pins stays what it was
\* measured with, whatever is appended, promoted, reverted or deleted meanwhile.
PinnedConfigIsKept ==
  [][\A d \in Definitions : pin[d] # 0 => config'[pin[d]] = config[pin[d]]]_vars

==============================================================================
