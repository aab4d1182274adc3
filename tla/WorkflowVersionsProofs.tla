------------------------ MODULE WorkflowVersionsProofs ------------------------
(***************************************************************************)
(* Theorems about WorkflowVersions, for any number of requests, versions,  *)
(* attempts and definitions.                                               *)
(***************************************************************************)
EXTENDS WorkflowVersions, Sequences, TLAPS

\* The numbers that are taken have no gap, and the lineage has no head exactly
\* when it has no version.
Contiguous == \A n \in Taken : \A m \in 1..n : m \in Taken

HeadIsVersion == head = 0 <=> Taken = {}

Request ==
  [at : {"idle", "read", "commit"}, kind : Kinds,
   config : Configs \cup {NoConfig},
   definition : Definitions \cup {NoDefinition},
   attempt : 1..MaxAttempts, next : 1..(MaxVersions + 1),
   head : 0..MaxVersions, since : 0..MaxVersions, behind : BOOLEAN]

\* What a request knows of a lineage that is still there: the number below
\* the one it is about to take is taken, and every attempt but the last one
\* was overtaken by a version of somebody else.
Informed(q) ==
  /\ q.at # "idle" => q.config \in Configs
  /\ q.at = "commit" => q.next \in 2..MaxVersions
  /\ q.at = "commit" /\ head # 0 => (q.next - 1) \in Taken
  /\ q.at = "read" /\ head # 0 /\ q.kind # "apply" /\ ~q.behind =>
       \E n \in Taken : n = q.since + q.attempt - 1
  /\ q.at = "commit" /\ head # 0 /\ q.kind # "apply" /\ ~q.behind =>
       q.since + q.attempt <= q.next

IInv ==
  /\ TypeOK
  /\ Contiguous
  /\ HeadIsVersion
  /\ \A r \in Requests : Informed(request[r])

------------------------------------------------------------------------------
LEMMA InitIInv == Init => IInv
<1> USE MaxVersionsAssumption, MaxAttemptsAssumption
<1> SUFFICES ASSUME Init PROVE IInv
  OBVIOUS
<1>1. PICK c \in Configs :
        config = [n \in Numbers |-> IF n = 1 THEN c ELSE NoConfig]
  BY DEF Init
<1>2. 1 \in Numbers /\ c # NoConfig
  BY NoConfigAssumption DEF Numbers
<1>3. Taken = {1}
  BY <1>1, <1>2 DEF Taken
<1>4. Idle \in Request
  BY DEF Idle, Request, Kinds
<1>5. TypeOK
  BY <1>1, <1>3, <1>4 DEF Init, TypeOK, Request
<1>6. Contiguous /\ HeadIsVersion
  BY <1>3 DEF Init, Contiguous, HeadIsVersion
<1>7. \A r \in Requests : Informed(request[r])
  BY DEF Init, Idle, Informed
<1> QED
  BY <1>5, <1>6, <1>7 DEF IInv

\* A version that is taken is the newest one or below it.
LEMMA NewestBounds ==
  ASSUME IInv, head # 0, NEW n, IsNewest(n)
  PROVE  n \in Taken /\ n \in Numbers /\ (n + 1) \notin Taken
<1>1. \E m \in Taken : m \in Numbers
  BY DEF IInv, HeadIsVersion, Taken
<1>2. n \in Taken
  BY <1>1, MaxVersionsAssumption DEF IsNewest, Numbers
<1> QED
  BY <1>2, MaxVersionsAssumption DEF IsNewest, Taken, Numbers

\* A step in which no version comes or goes and the head stays in the lineage
\* leaves what the other requests know alone.
LEMMA Elsewhere ==
  ASSUME IInv, NEW r \in Requests, NEW q \in Request,
         UNCHANGED <<config, pin>>, head' \in Taken \cup {0},
         head = 0 <=> head' = 0,
         request' = [request EXCEPT ![r] = q],
         Informed(q)
  PROVE  IInv'
<1>1. Taken' = Taken
  BY DEF Taken
<1>2. TypeOK'
  BY <1>1 DEF IInv, TypeOK, Request
<1>3. Contiguous' /\ HeadIsVersion'
  BY <1>1 DEF IInv, Contiguous, HeadIsVersion
<1>4. \A s \in Requests : Informed(request'[s])
  BY DEF IInv, TypeOK
<1>5. \A s \in Requests : Informed(request[s])'
  BY <1>1, <1>4 DEF Informed
<1> QED
  BY <1>2, <1>3, <1>5 DEF IInv

LEMMA IdleInformed == Idle \in Request /\ Informed(Idle)
BY MaxVersionsAssumption, MaxAttemptsAssumption
DEF Idle, Request, Kinds, Informed

LEMMA RequestType == IInv => \A r \in Requests : request[r] \in Request
BY DEF IInv, TypeOK, Request

------------------------------------------------------------------------------
LEMMA BeginIInv ==
  ASSUME IInv, NEW r \in Requests, NEW kind \in Kinds, NEW c \in Configs,
         NEW d \in Definitions \cup {NoDefinition}, Begin(r, kind, c, d)
  PROVE  IInv'
<1>1. PICK n \in Numbers :
        /\ IsNewest(n)
        /\ request' = [request EXCEPT ![r] =
             [Idle EXCEPT !.at = "read", !.kind = kind, !.config = c,
                          !.definition = d, !.since = n]]
  BY DEF Begin
<1> DEFINE q == [Idle EXCEPT !.at = "read", !.kind = kind, !.config = c,
                             !.definition = d, !.since = n]
<1>2. n \in Taken
  BY <1>1, NewestBounds DEF Begin
<1>3. q \in Request
  <2>1. /\ n \in 0..MaxVersions /\ 0 \in 0..MaxVersions
        /\ 1 \in 1..MaxAttempts /\ 1 \in 1..(MaxVersions + 1)
    BY MaxVersionsAssumption, MaxAttemptsAssumption DEF Numbers
  <2>2. [Idle EXCEPT !.at = "read", !.kind = kind, !.config = c] \in Request
    BY IdleInformed DEF Request
  <2> QED
    BY <2>1, <2>2 DEF Idle, Request
<1>4. /\ q.at = "read" /\ q.config = c /\ q.since = n /\ q.attempt = 1
  BY DEF Idle
<1> HIDE DEF q
<1>5. Informed(q)
  BY <1>2, <1>4, MaxVersionsAssumption DEF Informed, Numbers
<1>6. head' \in Taken \cup {0} /\ UNCHANGED <<config, pin, head>>
  BY DEF Begin, IInv, TypeOK
<1> QED
  BY <1>1, <1>3, <1>5, <1>6, Elsewhere DEF q

LEMMA FinishIInv ==
  ASSUME IInv, NEW r \in Requests, Finish(r), UNCHANGED <<config, head, pin>>
  PROVE  IInv'
BY IdleInformed, Elsewhere DEF Finish, IInv, TypeOK

LEMMA ReadNumberIInv ==
  ASSUME IInv, NEW r \in Requests, ReadNumber(r)
  PROVE  IInv'
<1> USE MaxVersionsAssumption, MaxAttemptsAssumption
<1>1. PICK newest \in Numbers :
       /\ IsNewest(newest)
       /\ NextNumber(r, newest) <= MaxVersions
       /\ request' = [request EXCEPT
            ![r].at = "commit", ![r].next = NextNumber(r, newest),
            ![r].head = IF request[r].kind = "promote" THEN head ELSE 0,
            ![r].behind = @ \/ (request[r].kind = "edit" /\ head < newest)]
  BY DEF ReadNumber
<1> DEFINE p == request[r]
           b == p.behind \/ (p.kind = "edit" /\ head < newest)
           h == IF p.kind = "promote" THEN head ELSE 0
           q == [p EXCEPT !.at = "commit", !.next = NextNumber(r, newest),
                          !.head = h, !.behind = b]
<1>2. p \in Request /\ p.at = "read" /\ Informed(p)
  BY RequestType DEF ReadNumber, IInv
<1>3. head # 0 /\ head \in Taken /\ Taken \subseteq Numbers
  BY DEF ReadNumber, Refused, IInv, TypeOK, Taken
<1>4. newest \in Taken /\ \A m \in Taken : m <= newest
  BY <1>1, <1>3, NewestBounds DEF IsNewest
<1>5. /\ NextNumber(r, newest) \in 2..MaxVersions
      /\ (NextNumber(r, newest) - 1) \in Taken
      /\ ~(p.kind = "edit" /\ head < newest) => NextNumber(r, newest) = newest + 1
  BY <1>1, <1>3, <1>4 DEF NextNumber, Numbers
<1>6. b \in BOOLEAN /\ h \in 0..MaxVersions
  BY <1>3 DEF Numbers
<1>7. request' = [request EXCEPT ![r] = q]
  BY <1>1
<1> HIDE DEF b, h
<1>8. q \in Request
  <2>1. NextNumber(r, newest) \in 1..(MaxVersions + 1)
    BY <1>5
  <2> QED
    BY <1>2, <1>6, <2>1 DEF Request
<1>9. /\ q.at = "commit" /\ q.config = p.config /\ q.next = NextNumber(r, newest)
      /\ q.behind = b /\ q.kind = p.kind /\ q.since = p.since
      /\ q.attempt = p.attempt
  BY <1>2 DEF Request
<1>10. p.since \in Nat /\ p.attempt \in Nat
  BY <1>2 DEF Request
<1>11. p.kind # "apply" /\ ~p.behind => p.since + p.attempt <= newest + 1
  BY <1>2, <1>3, <1>4, <1>10 DEF Informed, Numbers
<1>12. ~b => ~p.behind /\ ~(p.kind = "edit" /\ head < newest)
  BY DEF b
<1> HIDE DEF p, q
<1>13. p.config \in Configs
  BY <1>2 DEF Informed
<1>14. Informed(q)
  BY <1>5, <1>9, <1>11, <1>12, <1>13 DEF Informed
<1> QED
  BY <1>3, <1>7, <1>8, <1>14, Elsewhere DEF ReadNumber

LEMMA RetryIInv ==
  ASSUME IInv, NEW r \in Requests, Retry(r)
  PROVE  IInv'
<1> USE MaxVersionsAssumption, MaxAttemptsAssumption
<1> DEFINE p == request[r]
           q == [p EXCEPT !.at = "read", !.attempt = p.attempt + 1]
<1>1. p \in Request /\ p.at = "commit" /\ Informed(p) /\ head # 0
  BY RequestType DEF Retry, IInv
<1>2. p.next \in Taken /\ p.kind # "apply" /\ p.attempt < MaxAttempts
  BY DEF Retry, NumberIsTaken, Tries
<1>3. q \in Request
  <2>1. (p.attempt + 1) \in 1..MaxAttempts
    BY <1>1, <1>2 DEF Request
  <2> QED
    BY <1>1, <2>1 DEF Request
<1>4. /\ q.at = "read" /\ q.config = p.config
      /\ q.behind = p.behind /\ q.since = p.since /\ q.attempt = p.attempt + 1
      /\ p.since \in Nat /\ p.attempt \in 1..MaxAttempts
  BY <1>1, <1>2 DEF Request
<1>5. request' = [request EXCEPT ![r] = q]
  BY DEF Retry
<1> HIDE DEF p, q
<1>6. ~p.behind => p.since + p.attempt <= p.next
  BY <1>1, <1>2 DEF Informed
<1>7. ~p.behind => (p.since + p.attempt) \in Taken
  BY <1>2, <1>4, <1>6 DEF IInv, Contiguous, Taken, Numbers
<1>8. Informed(q)
  BY <1>1, <1>4, <1>7 DEF Informed
<1> QED
  BY <1>1, <1>3, <1>5, <1>8, Elsewhere DEF Retry, IInv, TypeOK

\* The number that a commit takes is the one above all that are taken.
LEMMA CommitTakes ==
  ASSUME IInv, NEW r \in Requests, Commit(r)
  PROVE  /\ request[r].next \in Numbers
         /\ request[r].config \in Configs
         /\ Taken' = Taken \cup {request[r].next}
         /\ \A n \in Numbers : n \in Taken <=> n < request[r].next
<1> USE MaxVersionsAssumption
<1> DEFINE q == request[r]
<1>1. /\ q.at = "commit" /\ head # 0 /\ Informed(q) /\ q.next \notin Taken
      /\ config' = [config EXCEPT ![q.next] = q.config]
  BY DEF Commit, IInv, NumberIsTaken
<1>2. /\ q.config \in Configs /\ q.next \in 2..MaxVersions
      /\ (q.next - 1) \in Taken
  BY <1>1 DEF Informed
<1> HIDE DEF q
<1>3. config \in [Numbers -> Configs \cup {NoConfig}] /\ q.next \in Numbers
  BY <1>2 DEF IInv, TypeOK, Numbers
<1>4. Taken' = Taken \cup {q.next}
  BY <1>1, <1>2, <1>3, NoConfigAssumption DEF Taken
<1>5. ASSUME NEW n \in Numbers, n < q.next PROVE n \in Taken
  BY <1>2, <1>5 DEF IInv, Contiguous, Numbers
<1>6. ASSUME NEW n \in Numbers, n \in Taken, ~(n < q.next) PROVE FALSE
  <2>1. q.next \in 1..n
    BY <1>2, <1>6 DEF Numbers
  <2> QED BY <1>1, <1>6, <2>1 DEF IInv, Contiguous
<1> QED
  BY <1>2, <1>3, <1>4, <1>5, <1>6 DEF q

LEMMA CommitIInv ==
  ASSUME IInv, NEW r \in Requests, Commit(r)
  PROVE  IInv'
<1> USE MaxVersionsAssumption, MaxAttemptsAssumption
<1> DEFINE q == request[r]
<1>1. /\ q.next \in Numbers /\ q.config \in Configs
      /\ Taken' = Taken \cup {q.next}
      /\ \A n \in Numbers : n \in Taken <=> n < q.next
  BY CommitTakes
<1>2. /\ config' = [config EXCEPT ![q.next] = q.config]
      /\ head' = q.next
      /\ pin' = IF q.kind = "promote"
                THEN [d \in Definitions |-> IF pin[d] = q.head THEN q.next ELSE pin[d]]
                ELSE pin
      /\ request' = [request EXCEPT ![r] = Idle]
      /\ head # 0
  BY DEF Commit, Finish
<1> HIDE DEF q
<1>3. TypeOK'
  <2>1. config' \in [Numbers -> Configs \cup {NoConfig}]
    BY <1>1, <1>2 DEF IInv, TypeOK
  <2>2. pin' \in [Definitions -> Taken' \cup {0}]
    BY <1>1, <1>2 DEF IInv, TypeOK
  <2>3. request' \in [Requests -> Request]
    BY <1>2, IdleInformed, RequestType DEF IInv, TypeOK, Request
  <2> QED
    BY <1>1, <1>2, <2>1, <2>2, <2>3 DEF TypeOK, Request
<1>4. Taken \subseteq Numbers
  BY DEF Taken
<1>5. Contiguous' /\ HeadIsVersion'
  BY <1>1, <1>2, <1>4 DEF Contiguous, HeadIsVersion, Numbers
<1>6. ASSUME NEW s \in Requests PROVE Informed(request[s])'
  <2>1. CASE s = r
    BY <1>2, <2>1 DEF IInv, TypeOK, Informed, Idle
  <2>2. CASE s # r
    <3>1. request'[s] = request[s] /\ Informed(request[s])
      BY <1>2, <2>2 DEF IInv, TypeOK
    <3> QED
      BY <1>1, <1>2, <3>1 DEF Informed
  <2> QED BY <2>1, <2>2
<1> QED
  BY <1>3, <1>5, <1>6 DEF IInv

LEMMA LineageIInv ==
  ASSUME IInv,
         \/ \E n \in Numbers : RevertHead(n)
         \/ \E d \in Definitions, n \in 0..MaxVersions : Pin(d, n)
         \/ DeleteWorkflow
  PROVE  IInv'
<1>1. ASSUME NEW n \in Numbers, RevertHead(n) PROVE IInv'
  <2>1. Taken' = Taken /\ n \in Taken /\ n # 0 /\ head # 0
    BY <1>1, MaxVersionsAssumption
    DEF RevertHead, Taken, IInv, HeadIsVersion, Numbers
  <2>2. TypeOK'
    BY <1>1, <2>1 DEF RevertHead, IInv, TypeOK
  <2>3. Contiguous' /\ HeadIsVersion'
    BY <1>1, <2>1 DEF RevertHead, IInv, Contiguous, HeadIsVersion
  <2>4. \A r \in Requests : Informed(request[r])'
    BY <1>1, <2>1 DEF RevertHead, IInv, Informed
  <2> QED BY <2>2, <2>3, <2>4 DEF IInv
<1>2. ASSUME NEW d \in Definitions, NEW n \in 0..MaxVersions, Pin(d, n)
      PROVE  IInv'
  <2>1. Taken' = Taken /\ UNCHANGED <<config, head, request>>
    BY <1>2 DEF Pin, Taken
  <2>2. TypeOK'
    BY <1>2, <2>1 DEF Pin, IInv, TypeOK
  <2>3. Contiguous' /\ HeadIsVersion'
    BY <2>1 DEF IInv, Contiguous, HeadIsVersion
  <2>4. \A r \in Requests : Informed(request[r])'
    BY <2>1 DEF IInv, Informed
  <2> QED BY <2>2, <2>3, <2>4 DEF IInv
<1>3. ASSUME DeleteWorkflow PROVE IInv'
  <2>1. Taken' = {} /\ head' = 0 /\ UNCHANGED <<pin, request>>
    BY <1>3 DEF DeleteWorkflow, Taken
  <2>2. TypeOK'
    BY <1>3, <2>1 DEF DeleteWorkflow, IInv, TypeOK
  <2>3. Contiguous' /\ HeadIsVersion'
    BY <2>1 DEF Contiguous, HeadIsVersion
  <2>4. \A r \in Requests : Informed(request[r])'
    BY <2>1 DEF IInv, Informed
  <2> QED BY <2>2, <2>3, <2>4 DEF IInv
<1> QED BY <1>1, <1>2, <1>3

LEMMA StepIInv == IInv /\ [Next]_vars => IInv'
<1> SUFFICES ASSUME IInv, [Next]_vars PROVE IInv'
  OBVIOUS
<1>1. ASSUME NEW r \in Requests, RequestStep(r) PROVE IInv'
  <2>1. ASSUME NEW kind \in Kinds, NEW c \in Configs,
               NEW d \in Definitions \cup {NoDefinition}, Begin(r, kind, c, d)
        PROVE  IInv'
    BY <2>1, BeginIInv
  <2>2. CASE ReadAndRefuse(r) \/ Reject(r) \/ CommitFails(r)
    BY <2>2, FinishIInv DEF ReadAndRefuse, Reject, CommitFails
  <2>3. CASE ReadNumber(r)
    BY <2>3, ReadNumberIInv
  <2>4. CASE Commit(r)
    BY <2>4, CommitIInv
  <2>5. CASE Retry(r)
    BY <2>5, RetryIInv
  <2> QED BY <1>1, <2>1, <2>2, <2>3, <2>4, <2>5 DEF RequestStep
<1>2. CASE UNCHANGED vars
  <2>1. Taken' = Taken /\ UNCHANGED <<config, head, pin, request>>
    BY <1>2 DEF vars, Taken
  <2>2. TypeOK' /\ Contiguous' /\ HeadIsVersion'
    BY <2>1 DEF IInv, TypeOK, Contiguous, HeadIsVersion
  <2>3. \A r \in Requests : Informed(request[r])'
    BY <2>1 DEF IInv, Informed
  <2> QED BY <2>2, <2>3 DEF IInv
<1> QED BY <1>1, <1>2, LineageIInv DEF Next

LEMMA IInvAlways == Spec => []IInv
BY InitIInv, StepIInv, PTL DEF Spec

------------------------------------------------------------------------------
\* The rows of the lineage, the pins of the definitions and the requests are
\* well typed: the head and every pin name a version that exists.
THEOREM TypeCorrect == Spec => []TypeOK
<1>1. IInv => TypeOK
  BY DEF IInv
<1> QED BY <1>1, IInvAlways, PTL

\* Pinned configs are kept, for any number of requests, versions and attempts.
THEOREM PinnedConfigsAreKept == Spec => PinnedConfigIsKept
<1> DEFINE Kept == \A d \in Definitions :
                     pin[d] # 0 => config'[pin[d]] = config[pin[d]]
<1>1. IInv /\ [Next]_vars => [Kept]_vars
  <2> SUFFICES ASSUME IInv, Next, NEW d \in Definitions, pin[d] # 0
               PROVE  config'[pin[d]] = config[pin[d]]
    OBVIOUS
  <2>1. pin[d] \in Taken
    BY DEF IInv, TypeOK
  <2>2. ASSUME NEW r \in Requests, Commit(r)
        PROVE  config'[pin[d]] = config[pin[d]]
    <3>1. pin[d] # request[r].next
      BY <2>1, <2>2 DEF Commit, NumberIsTaken
    <3> QED
      BY <2>1, <2>2, <3>1 DEF Commit, IInv, TypeOK, Taken
  <2>3. ~DeleteWorkflow
    BY DEF DeleteWorkflow
  <2>4. CASE UNCHANGED config
    BY <2>4
  <2> QED
    BY <2>2, <2>3, <2>4 DEF Next, RequestStep, Begin, ReadAndRefuse, ReadNumber,
      Retry, Reject, CommitFails, RevertHead, Pin
<1>2. Spec => [][Kept]_vars
  BY <1>1, IInvAlways, PTL DEF Spec
<1> QED
  BY <1>2 DEF PinnedConfigIsKept

\* For any number of attempts, an edit or a promotion is only rejected when it
\* was overtaken that often, or when an edit read a head that was put back.
THEOREM RejectionsAreEarned == Spec => RejectedOnlyWhenOvertaken
<1> DEFINE Earned == \A r \in Requests :
              Reject(r) /\ request[r].kind # "apply" =>
                \/ request[r].behind
                \/ (request[r].since + MaxAttempts) \in Taken
<1>1. ASSUME IInv PROVE Earned
  <2> SUFFICES ASSUME NEW r \in Requests, Reject(r),
                      request[r].kind # "apply", ~request[r].behind
               PROVE  (request[r].since + MaxAttempts) \in Taken
    OBVIOUS
  <2>1. request[r] \in Request /\ Informed(request[r])
    BY <1>1, RequestType DEF IInv
  <2>2. /\ request[r].since \in Nat /\ request[r].attempt \in 1..MaxAttempts
        /\ request[r].next \in Nat
    BY <2>1 DEF Request
  <2>3. /\ request[r].since + request[r].attempt <= request[r].next
        /\ request[r].next \in Taken /\ request[r].attempt >= MaxAttempts
    BY <2>1, <2>2, MaxAttemptsAssumption DEF Reject, NumberIsTaken, Tries, Informed
  <2> QED
    BY <1>1, <2>2, <2>3, MaxAttemptsAssumption DEF IInv, Contiguous
<1>2. IInv /\ [Next]_vars => [Earned]_vars
  BY <1>1
<1>3. Spec => [][Earned]_vars
  BY <1>2, IInvAlways, PTL DEF Spec
<1> QED BY <1>3 DEF RejectedOnlyWhenOvertaken

------------------------------------------------------------------------------
(* The refinement.  `g' is the newest version of the lineage, 0 without one. *)

Greatest(g) == \A m \in Numbers : m \in Taken <=> m <= g

LEMMA GreatestIsUnique ==
  ASSUME NEW T, NEW g \in 0..MaxVersions,
         \A m \in Numbers : m \in T <=> m <= g
  PROVE  (CHOOSE n \in 0..MaxVersions : \A m \in Numbers : m \in T <=> m <= n) = g
<1> DEFINE Bounds(n) == \A m \in Numbers : m \in T <=> m <= n
<1> USE MaxVersionsAssumption
<1>1. ASSUME NEW n \in 0..MaxVersions, Bounds(n) PROVE n = g
  <2>1. CASE n > g
    BY <1>1, <2>1 DEF Numbers
  <2>2. CASE n < g
    BY <1>1, <2>2 DEF Numbers
  <2> QED BY <2>1, <2>2
<1> QED BY <1>1

LEMMA NewestIs ==
  ASSUME NEW g \in 0..MaxVersions
  PROVE  /\ Greatest(g) => Newest = g
         /\ Greatest(g)' => Newest' = g
<1>1. ASSUME Greatest(g) PROVE Newest = g
  BY <1>1, GreatestIsUnique DEF Greatest, Newest
<1>2. ASSUME Greatest(g)' PROVE Newest' = g
  <2>1. \A m \in Numbers : m \in Taken' <=> m <= g
    BY <1>2 DEF Greatest
  <2>2. (CHOOSE n \in 0..MaxVersions : \A m \in Numbers : m \in Taken' <=> m <= n) = g
    BY <2>1, GreatestIsUnique
  <2> QED BY <2>2 DEF Newest
<1> QED BY <1>1, <1>2

HasGreatest == \E g \in 0..MaxVersions : Greatest(g)

LEMMA InitGreatest == Init => 1 \in 0..MaxVersions /\ Greatest(1) /\ Taken = {1}
<1> SUFFICES ASSUME Init PROVE 1 \in 0..MaxVersions /\ Greatest(1) /\ Taken = {1}
  OBVIOUS
<1>1. PICK c \in Configs :
        config = [n \in Numbers |-> IF n = 1 THEN c ELSE NoConfig]
  BY DEF Init
<1>2. Taken = {1}
  BY <1>1, NoConfigAssumption, MaxVersionsAssumption DEF Taken, Numbers
<1> QED
  BY <1>2, MaxVersionsAssumption DEF Greatest, Numbers

LEMMA CommitGreatest ==
  ASSUME IInv, NEW r \in Requests, Commit(r)
  PROVE  /\ request[r].next \in 2..MaxVersions
         /\ Greatest(request[r].next - 1)
         /\ \A m \in Numbers : m \in Taken' <=> m <= request[r].next
<1> DEFINE k == request[r].next
<1>1. k \in 2..MaxVersions
  BY DEF Commit, IInv, Informed
<1>2. Taken' = Taken \cup {k} /\ \A n \in Numbers : n \in Taken <=> n < k
  BY CommitTakes
<1> HIDE DEF k
<1>3. Greatest(k - 1) /\ \A n \in Numbers : n \in Taken' <=> n <= k
  BY <1>1, <1>2, MaxVersionsAssumption DEF Greatest, Numbers
<1> QED
  BY <1>1, <1>3 DEF k

\* Only a commit and the deletion of the lineage change which versions exist.
LEMMA TakenChanges ==
  ASSUME IInv, [Next]_vars
  PROVE  \/ \E r \in Requests : Commit(r)
         \/ DeleteWorkflow
         \/ UNCHANGED config
BY DEF Next, RequestStep, Begin, ReadAndRefuse, ReadNumber, Retry, Reject,
       CommitFails, RevertHead, Pin, vars

LEMMA HeadChanges ==
  ASSUME [Next]_vars
  PROVE  \/ \E r \in Requests : Commit(r)
         \/ DeleteWorkflow
         \/ \E n \in Numbers : RevertHead(n)
         \/ UNCHANGED head
<1>1. ASSUME NEW r \in Requests, RequestStep(r)
      PROVE  Commit(r) \/ UNCHANGED head
  BY <1>1 DEF RequestStep, Begin, ReadAndRefuse, ReadNumber, Retry, Reject,
     CommitFails
<1> QED
  BY <1>1 DEF Next, Pin, vars

LEMMA GreatestAlways == Spec => []HasGreatest
<1>1. Init => HasGreatest
  BY InitGreatest DEF HasGreatest
<1>2. IInv /\ HasGreatest /\ [Next]_vars => HasGreatest'
  <2> SUFFICES ASSUME IInv, HasGreatest, [Next]_vars PROVE HasGreatest'
    OBVIOUS
  <2>1. ASSUME NEW r \in Requests, Commit(r) PROVE HasGreatest'
    <3>1. PICK k \in 0..MaxVersions : k = request[r].next
      BY <2>1, CommitGreatest, MaxVersionsAssumption
    <3>2. \A m \in Numbers : m \in Taken' <=> m <= k
      BY <2>1, <3>1, CommitGreatest
    <3> QED BY <3>2 DEF HasGreatest, Greatest
  <2>2. CASE DeleteWorkflow
    <3>1. Taken' = {}
      BY <2>2 DEF DeleteWorkflow, Taken
    <3>2. 0 \in 0..MaxVersions /\ \A m \in Numbers : m \in Taken' <=> m <= 0
      BY <3>1, MaxVersionsAssumption DEF Numbers
    <3> QED BY <3>2 DEF HasGreatest, Greatest
  <2>3. CASE UNCHANGED config
    BY <2>3 DEF HasGreatest, Greatest, Taken
  <2> QED BY <2>1, <2>2, <2>3, TakenChanges
<1> QED BY <1>1, <1>2, IInvAlways, PTL DEF Spec

\* The history that a state stands for, when its newest version is g.
LEMMA HistoryIs ==
  ASSUME IInv, NEW g \in 0..MaxVersions, Greatest(g)
  PROVE  /\ [n \in 1..Newest |-> config[n]] = [n \in 1..g |-> config[n]]
         /\ [n \in 1..g |-> config[n]] \in Seq(Configs)
         /\ Len([n \in 1..g |-> config[n]]) = g
         /\ g = 0 <=> head = 0
<1>1. Newest = g
  BY NewestIs
<1>2. \A n \in 1..g : n \in Taken /\ config[n] \in Configs
  BY MaxVersionsAssumption DEF Greatest, Numbers, Taken, IInv, TypeOK
<1>3. g \in Nat
  BY MaxVersionsAssumption
<1>4. [n \in 1..g |-> config[n]] \in Seq(Configs)
  BY <1>2, <1>3
<1>5. g = 0 <=> head = 0
  BY <1>2, <1>3 DEF Greatest, IInv, HeadIsVersion, Numbers, Taken
<1> QED BY <1>1, <1>3, <1>4, <1>5

LEMMA InitHistory == Init => History!Init
<1> SUFFICES ASSUME Init PROVE History!Init
  OBVIOUS
<1>1. Newest = 1
  BY InitGreatest, NewestIs
<1>2. PICK c \in Configs :
        config = [n \in Numbers |-> IF n = 1 THEN c ELSE NoConfig]
  BY DEF Init
<1>3. config[1] = c
  BY <1>2, MaxVersionsAssumption DEF Numbers
<1>4. [n \in 1..Newest |-> config[n]] = <<c>>
  BY <1>1, <1>3
<1> QED
  BY <1>4 DEF History!Init, Init

LEMMA CommitHistory ==
  ASSUME IInv, NEW r \in Requests, Commit(r)
  PROVE  History!Next
<1> DEFINE k == request[r].next
           c == request[r].config
           h == [n \in 1..(k - 1) |-> config[n]]
<1> USE MaxVersionsAssumption
<1>1. /\ k \in 2..MaxVersions /\ Greatest(k - 1)
      /\ \A m \in Numbers : m \in Taken' <=> m <= k
  BY CommitGreatest
<1>2. /\ c \in Configs /\ config' = [config EXCEPT ![k] = c] /\ head' = k
      /\ config \in [Numbers -> Configs \cup {NoConfig}]
  BY CommitTakes DEF Commit, IInv, TypeOK
<1> HIDE DEF k, c
<1>3. /\ [n \in 1..Newest |-> config[n]] = h
      /\ h \in Seq(Configs) /\ Len(h) = k - 1
  BY <1>1, HistoryIs
<1>4. PICK g \in 0..MaxVersions : g = k
  BY <1>1
<1>5. Newest' = k
  BY <1>1, <1>4, NewestIs DEF Greatest
<1>6. [n \in 1..Newest' |-> config'[n]] = Append(h, c)
  <2>1. [n \in 1..k |-> config'[n]] =
          [n \in 1..k |-> IF n = k THEN c ELSE config[n]]
    BY <1>1, <1>2 DEF Numbers
  <2>2. Append(h, c) = [n \in 1..k |-> IF n = k THEN c ELSE config[n]]
    BY <1>1, <1>2, <1>3
  <2> QED BY <1>5, <2>1, <2>2
<1>7. h # <<>> /\ Len(Append(h, c)) = k
  BY <1>1, <1>2, <1>3
<1>8. PICK x \in Configs : x = c
  BY <1>2
<1>9. History!AppendVersion(x)
  BY <1>2, <1>3, <1>6, <1>7, <1>8 DEF History!AppendVersion
<1> QED
  BY <1>9 DEF History!Next

LEMMA StepHistory ==
  ASSUME IInv, HasGreatest, [Next]_vars
  PROVE  \/ History!Next
         \/ UNCHANGED <<[n \in 1..Newest |-> config[n]], head>>
<1>1. PICK g \in 0..MaxVersions : Greatest(g)
  BY DEF HasGreatest
<1>2. ASSUME NEW r \in Requests, Commit(r)
      PROVE  History!Next
  BY <1>2, CommitHistory
<1>3. CASE DeleteWorkflow
  <2>1. Taken' = {} /\ head' = 0
    BY <1>3 DEF DeleteWorkflow, Taken
  <2>2. 0 \in 0..MaxVersions /\ \A m \in Numbers : m \in Taken' <=> m <= 0
    BY <2>1, MaxVersionsAssumption DEF Numbers
  <2>3. Newest' = 0
    BY <2>2, NewestIs DEF Greatest
  <2>4. [n \in 1..Newest' |-> config'[n]] = <<>>
    BY <2>3
  <2> QED
    BY <2>1, <2>4 DEF History!DeleteLineage, History!Next
<1>4. CASE UNCHANGED config
  <2>1. Newest' = Newest
    BY <1>4 DEF Newest, Taken
  <2>2. UNCHANGED [n \in 1..Newest |-> config[n]]
    BY <1>4, <2>1
  <2>3. CASE UNCHANGED head
    BY <2>2, <2>3
  <2>4. ASSUME NEW n \in Numbers, RevertHead(n)
        PROVE  History!Next
    <3>1. n \in 1..g /\ head' = n
      BY <1>1, <2>4, MaxVersionsAssumption DEF RevertHead, Greatest, Numbers, Taken
    <3>2. n \in 1..Len([m \in 1..Newest |-> config[m]])
      BY <1>1, <3>1, HistoryIs
    <3>3. History!MoveHead(n)
      BY <2>2, <3>1, <3>2 DEF History!MoveHead
    <3> QED
      BY <3>2, <3>3 DEF History!Next
  <2> QED
    BY <1>2, <1>3, <2>2, <2>3, <2>4, HeadChanges
<1> QED
  BY <1>2, <1>3, <1>4, TakenChanges

\* For any number of requests, versions and attempts the lineage implements the
\* append-only history.
THEOREM LineageImplementsHistory == Spec => ImplementsHistory
<1>1. IInv /\ HasGreatest /\ [Next]_vars
        => [History!Next]_<<[n \in 1..Newest |-> config[n]], head>>
  BY StepHistory
<1> QED
  BY <1>1, InitHistory, IInvAlways, GreatestAlways, PTL
  DEF Spec, ImplementsHistory, History!Spec
==============================================================================
