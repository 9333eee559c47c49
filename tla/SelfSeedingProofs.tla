------------------------- MODULE SelfSeedingProofs --------------------------
(***************************************************************************)
(* Proofs about SelfSeeding for any number of requests, domains and pages. *)
(***************************************************************************)
EXTENDS SelfSeeding, TLAPS, FiniteSetTheorems

Adders == {"import", "autoClick", "approve", "approveTool"}

(* What a request is tells where it can be.                                *)
KindsFit ==
    \A q \in Requests :
        /\ pc[q] = "new" => kind[q] = "none"
        /\ pc[q] = "queueing" => kind[q] = "click"
        /\ pc[q] \in {"checking", "inserting"} => kind[q] \in Adders
        /\ pc[q] = "marking" => kind[q] \in {"approve", "approveTool"}
        /\ pc[q] = "toggling" => kind[q] = "toggle"

TypeInv == TypeOK /\ KindsFit

LEMMA InitTypes == Init => TypeInv
BY SelfSeedingAssumption
DEF Init, TypeInv, TypeOK, KindsFit, Seed, Steps, Statuses, Found, SawNothing

(* A request that is received was new, and nobody else is concerned.       *)
LEMMA Receiving ==
    ASSUME TypeInv, NEW q \in Requests, NEW k, NEW D \in SUBSET Domains,
           NEW r \in [seeds : SUBSET Seed, status : Statuses],
           NEW step \in Steps, Receive(q, k, D, r, step),
           step = "queueing" => k = "click",
           step \in {"checking", "inserting"} => k \in Adders,
           step = "toggling" => k = "toggle",
           step \notin {"new", "marking"}
    PROVE  /\ pc \in [Requests -> Steps] /\ pc' \in [Requests -> Steps]
           /\ kind' \in [Requests -> Kinds \cup {"none"}]
           /\ domains' \in [Requests -> SUBSET Domains]
           /\ saw' \in [Requests -> [seeds : SUBSET Seed, status : Statuses]]
           /\ KindsFit'
           /\ pc[q] = "new" /\ kind[q] = "none" /\ kind'[q] = k
           /\ pc'[q] = step /\ domains'[q] = D /\ saw'[q] = r
           /\ \A z \in Requests \ {q} :
                 pc'[z] = pc[z] /\ kind'[z] = kind[z] /\ domains'[z] = domains[z]
                   /\ saw'[z] = saw[z]
BY DEF Receive, GoTo, TypeInv, TypeOK, KindsFit

(* A request that goes on stays what it is.                                *)
LEMMA GoingOn ==
    ASSUME TypeInv, NEW q \in Requests, NEW step \in Steps, GoTo(q, step),
           kind' = kind, pc[q] # "new",
           step \in {"done", "failed", "lost", "inserting", "marking"},
           step = "inserting" => pc[q] = "checking",
           step = "marking" => kind[q] \in {"approve", "approveTool"}
    PROVE  /\ pc' \in [Requests -> Steps]
           /\ KindsFit'
           /\ pc'[q] = step
           /\ \A z \in Requests \ {q} : pc'[z] = pc[z]
BY DEF GoTo, TypeInv, TypeOK, KindsFit

-----------------------------------------------------------------------------
(* What each action is, by what it makes of the request.                   *)

LEMMA ClickReceives ==
    ASSUME TypeInv, NEW q \in Requests, Click(q)
    PROVE  \E H \in Harvests, k \in {"click", "autoClick"} :
              LET step == IF H \subseteq Enabled THEN "done"
                          ELSE IF k = "autoClick" THEN "checking" ELSE "queueing"
              IN  /\ Receive(q, k, H \ Enabled, SawNothing, step)
                  /\ H \ Enabled \in SUBSET Domains
                  /\ SawNothing \in [seeds : SUBSET Seed, status : Statuses]
                  /\ step \in {"done", "checking", "queueing"}
                  /\ step = "done" => H \ Enabled = {}
                  /\ step = "queueing" => k = "click"
                  /\ step = "checking" => k \in Adders
BY SelfSeedingAssumption DEF Click, SawNothing, Statuses, Adders

LEMMA ApproveReceives ==
    ASSUME TypeInv, NEW q \in Requests, Approve(q)
    PROVE  \E d \in Domains, k \in {"approve", "approveTool"}, step \in {"done", "checking"} :
              /\ found[d].status \in Statuses
              /\ Receive(q, k, {d}, [seeds |-> {}, status |-> found[d].status], step)
              /\ step = "done" /\ k = "approve" => found[d].status # "pending"
              /\ step = "done" /\ k = "approveTool" => found[d].status = "none"
              /\ step = "checking" => found[d].status # "none"
<1>1. PICK d \in Domains, k \in {"approve", "approveTool"} :
        LET st == found[d].status IN
        Receive(q, k, {d}, [seeds |-> {}, status |-> st],
                IF st = "pending" \/ (k = "approveTool" /\ st # "none")
                THEN "checking" ELSE "done")
  BY DEF Approve
<1>2. found[d].status \in Statuses BY DEF TypeInv, TypeOK, Found
<1>3. CASE found[d].status = "pending" \/ (k = "approveTool" /\ found[d].status # "none")
  BY <1>1, <1>2, <1>3
<1>4. CASE ~(found[d].status = "pending" \/ (k = "approveTool" /\ found[d].status # "none"))
  BY <1>1, <1>2, <1>4
<1> QED BY <1>3, <1>4

-----------------------------------------------------------------------------
(* Types, and where a request can be.                                      *)

LEMMA ReceivingTypes ==
    ASSUME TypeInv, NEW q \in Requests,
           Click(q) \/ Import(q) \/ Approve(q) \/ Reject(q) \/ Toggle(q) \/ Delete(q)
    PROVE  TypeInv'
<1> USE DEF Steps
<1>s. SawNothing \in [seeds : SUBSET Seed, status : Statuses]
  BY DEF SawNothing, Statuses
<1>1. CASE Click(q)
  <2>1. UNCHANGED <<seeds, inserts, found>> BY <1>1 DEF Click
  <2> QED BY <1>1, <2>1, ClickReceives, Receiving DEF TypeInv, TypeOK
<1>2. CASE Import(q)
  <2>1. PICK D \in SUBSET Domains :
          Receive(q, "import", D, SawNothing, IF D = {} THEN "done" ELSE "checking")
    BY <1>2 DEF Import
  <2>2. UNCHANGED <<seeds, inserts, found>> BY <1>2 DEF Import
  <2> QED BY <1>s, <2>1, <2>2, Receiving DEF TypeInv, TypeOK, Adders
<1>3. CASE Approve(q)
  <2>1. PICK d \in Domains, k \in {"approve", "approveTool"}, step \in {"done", "checking"} :
          /\ found[d].status \in Statuses
          /\ Receive(q, k, {d}, [seeds |-> {}, status |-> found[d].status], step)
    BY <1>3, ApproveReceives
  <2>2. [seeds |-> {}, status |-> found[d].status] \in [seeds : SUBSET Seed, status : Statuses]
    BY <2>1
  <2>3. UNCHANGED <<seeds, inserts, found>> BY <1>3 DEF Approve
  <2> DEFINE r == [seeds |-> {}, status |-> found[d].status]
  <2>4. k \in Adders BY DEF Adders
  <2>5. {d} \in SUBSET Domains /\ step \in Steps OBVIOUS
  <2>6. /\ r \in [seeds : SUBSET Seed, status : Statuses]
        /\ Receive(q, k, {d}, r, step)
    BY <2>1, <2>2
  <2> HIDE DEF r
  <2>7. /\ pc' \in [Requests -> Steps] /\ kind' \in [Requests -> Kinds \cup {"none"}]
        /\ domains' \in [Requests -> SUBSET Domains]
        /\ saw' \in [Requests -> [seeds : SUBSET Seed, status : Statuses]]
        /\ KindsFit'
    <3>1. /\ step # "queueing" /\ step # "toggling"
          /\ step \notin {"new", "marking"}
      OBVIOUS
    <3> HIDE DEF Steps
    <3> QED BY <2>4, <2>5, <2>6, <3>1, Receiving
  <2> QED BY <2>3, <2>7 DEF TypeInv, TypeOK
<1>4. CASE Reject(q)
  <2>1. PICK d \in Domains :
          /\ Receive(q, "reject", {d}, SawNothing, "done")
          /\ found' = [found EXCEPT ![d].status = "rejected"]
    BY <1>4 DEF Reject
  <2>2. found' \in [Domains -> Found] BY <2>1 DEF TypeInv, TypeOK, Found, Statuses
  <2>3. UNCHANGED <<seeds, inserts>> BY <1>4 DEF Reject
  <2> QED BY <1>s, <2>1, <2>2, <2>3, Receiving DEF TypeInv, TypeOK
<1>5. CASE Toggle(q)
  <2>1. PICK z \in seeds :
          Receive(q, "toggle", {z.value}, [seeds |-> {z}, status |-> "none"], "toggling")
    BY <1>5 DEF Toggle
  <2>2. z \in Seed /\ z.value \in Domains BY DEF TypeInv, TypeOK, Seed
  <2>3. [seeds |-> {z}, status |-> "none"] \in [seeds : SUBSET Seed, status : Statuses]
    BY <2>2 DEF Statuses
  <2>4. UNCHANGED <<seeds, inserts, found>> BY <1>5 DEF Toggle
  <2> QED BY <2>1, <2>2, <2>3, <2>4, Receiving DEF TypeInv, TypeOK
<1>6. CASE Delete(q)
  <2>1. PICK z \in seeds : /\ Receive(q, "delete", {z.value}, SawNothing, "done")
                           /\ seeds' = seeds \ {z}
    BY <1>6 DEF Delete
  <2>2. z.value \in Domains BY DEF TypeInv, TypeOK, Seed
  <2>3. UNCHANGED <<inserts, found>> BY <1>6 DEF Delete
  <2> QED BY <1>s, <2>1, <2>2, <2>3, Receiving DEF TypeInv, TypeOK
<1> QED BY <1>1, <1>2, <1>3, <1>4, <1>5, <1>6

LEMMA GoingOnTypes ==
    ASSUME TypeInv, NEW q \in Requests,
           \/ QueueDomains(q) \/ CheckSeeds(q) \/ InsertSeeds(q) \/ InsertClashes(q)
           \/ MarkApproved(q) \/ WriteToggle(q) \/ ToggleGone(q) \/ Lose(q)
    PROVE  TypeInv'
<1> USE DEF Steps
<1>1. CASE QueueDomains(q)
  <2>1. \A f \in Found : Requeued(f) \in Found BY DEF Requeued, Found, Statuses
  <2>2. found' \in [Domains -> Found] BY <1>1, <2>1 DEF QueueDomains, TypeInv, TypeOK
  <2> QED BY <1>1, <2>2, GoingOn DEF QueueDomains, TypeInv, TypeOK
<1>2. CASE CheckSeeds(q)
  <2>1. saw' \in [Requests -> [seeds : SUBSET Seed, status : Statuses]]
    BY <1>2 DEF CheckSeeds, TypeInv, TypeOK
  <2> QED BY <1>2, <2>1, GoingOn DEF CheckSeeds, TypeInv, TypeOK
<1>3. CASE InsertSeeds(q)
  <2>1. Inserted(q) \subseteq Seed /\ inserts' \in Nat
    <3>1. Missing(q) \subseteq Domains /\ inserts \in Nat
      BY DEF Missing, TypeInv, TypeOK
    <3>2. inserts' \in Nat BY <1>3, <3>1 DEF InsertSeeds
    <3>3. ASSUME NEW d \in Missing(q)
          PROVE  [value |-> d, id |-> inserts, enabled |-> TRUE] \in Seed
      BY <3>1 DEF Seed
    <3> QED BY <3>2, <3>3 DEF Inserted
  <2>2. AfterInsert(q) \in {"done", "marking"}
        /\ (AfterInsert(q) = "marking" => kind[q] \in {"approve", "approveTool"})
    BY DEF AfterInsert
  <2> QED BY <1>3, <2>1, <2>2, GoingOn DEF InsertSeeds, TypeInv, TypeOK
<1>4. CASE InsertClashes(q) BY <1>4, GoingOn DEF InsertClashes, TypeInv, TypeOK
<1>5. CASE MarkApproved(q)
  <2>1. found' \in [Domains -> Found]
    BY <1>5 DEF MarkApproved, TypeInv, TypeOK, Found, Statuses
  <2> QED BY <1>5, <2>1, GoingOn DEF MarkApproved, TypeInv, TypeOK
<1>6. CASE WriteToggle(q)
  <2>1. seeds' \subseteq Seed BY <1>6 DEF WriteToggle, TypeInv, TypeOK, Seed
  <2> QED BY <1>6, <2>1, GoingOn DEF WriteToggle, TypeInv, TypeOK
<1>7. CASE ToggleGone(q) BY <1>7, GoingOn DEF ToggleGone, TypeInv, TypeOK
<1>8. CASE Lose(q) BY <1>8, GoingOn DEF Lose, TypeInv, TypeOK
<1> QED BY <1>1, <1>2, <1>3, <1>4, <1>5, <1>6, <1>7, <1>8

LEMMA NextTypes == TypeInv /\ [Next]_vars => TypeInv'
<1> SUFFICES ASSUME TypeInv, [Next]_vars PROVE TypeInv' OBVIOUS
<1>1. CASE UNCHANGED vars BY <1>1 DEF vars, TypeInv, TypeOK, KindsFit
<1>2. CASE Next
  BY <1>1, <1>2, ReceivingTypes, GoingOnTypes DEF Next, Answered
<1> QED BY <1>1, <1>2

LEMMA TypesCorrect == Spec => []TypeInv
BY InitTypes, NextTypes, PTL DEF Spec

-----------------------------------------------------------------------------
(* Decisions stick.                                                        *)

Decisions == {"approved", "rejected"}

(* No step takes a decision back, or a domain out of the review table.     *)
LEMMA StatusOnward ==
    ASSUME TypeInv, [Next]_vars, NEW d \in Domains
    PROVE  /\ found[d].status \in Decisions => found'[d].status \in Decisions
           /\ found[d].status # "none" => found'[d].status # "none"
<1> DEFINE Onward == /\ found[d].status \in Decisions => found'[d].status \in Decisions
                     /\ found[d].status # "none" => found'[d].status # "none"
<1>t. found \in [Domains -> Found] BY DEF TypeInv, TypeOK
<1>1. ASSUME NEW q \in Requests, QueueDomains(q) PROVE Onward
  BY <1>1, <1>t DEF QueueDomains, Requeued, Decisions
<1>2. ASSUME NEW q \in Requests, MarkApproved(q) PROVE Onward
  BY <1>2, <1>t DEF MarkApproved, Found, Decisions
<1>3. ASSUME NEW q \in Requests, Reject(q) PROVE Onward
  BY <1>3, <1>t DEF Reject, Found, Decisions
<1>4. ASSUME UNCHANGED found PROVE Onward BY <1>4
<1> QED
  BY <1>1, <1>2, <1>3, <1>4
  DEF Next, vars, Answered, Click, Import, CheckSeeds, InsertSeeds, InsertClashes, Approve,
      Toggle, WriteToggle, ToggleGone, Delete, Lose

(* A domain that was approved or rejected does not come back to the review *)
(* queue, however many clicks harvest it again.                            *)
THEOREM Decided == Spec => DecisionsStick
<1> DEFINE Sticks == \A d \in Domains :
                        found[d].status \in Decisions => found'[d].status \in Decisions
<1>1. TypeInv /\ [Next]_vars => [Sticks]_vars BY StatusOnward
<1>2. Spec => [][TypeInv /\ [Next]_vars]_vars BY TypesCorrect, PTL DEF Spec
<1> QED BY <1>1, <1>2, PTL DEF DecisionsStick, Sticks, Decisions

-----------------------------------------------------------------------------
(* What was approved or added is a seed, while none is deleted.            *)

(* What a request has found, and what it has added, are seeds.             *)
Own(q) ==
    /\ pc[q] = "inserting" => \A s \in saw[q].seeds : s.value \in Values
    /\ pc[q] = "marking" => domains[q] \subseteq Values
    /\ pc[q] = "done"
         /\ kind[q] \in {"import", "approve", "approveTool", "autoClick"}
         /\ (kind[q] = "approve" => saw[q].status = "pending")
         /\ (kind[q] = "approveTool" => saw[q].status # "none")
       => domains[q] \subseteq Values

AddedInv ==
    NoneDeleted =>
        /\ \A q \in Requests : Own(q)
        /\ \A d \in Domains : found[d].status = "approved" => d \in Values

LEMMA StillDeleted ==
    ASSUME TypeInv, [Next]_vars, NoneDeleted' PROVE NoneDeleted
<1> SUFFICES ASSUME NEW z \in Requests, kind[z] = "delete" PROVE kind'[z] = "delete"
  BY DEF NoneDeleted
<1>1. ASSUME NEW q \in Requests, NEW k, NEW D, NEW r, NEW step, Receive(q, k, D, r, step)
      PROVE  kind'[z] = "delete"
  BY <1>1 DEF Receive, TypeInv, TypeOK, KindsFit
<1>2. ASSUME UNCHANGED kind PROVE kind'[z] = "delete" BY <1>2
<1> QED
  BY <1>1, <1>2
  DEF Next, vars, Answered, Click, QueueDomains, Import, CheckSeeds, InsertSeeds,
      InsertClashes, Approve, MarkApproved, Reject, Toggle, WriteToggle, ToggleGone, Delete, Lose

(* A step that takes no seed away has to answer only for its own request   *)
(* and for the domains it approves.                                        *)
LEMMA OthersKept ==
    ASSUME AddedInv, NoneDeleted, NEW q \in Requests,
           \A v \in Values : v \in Values',
           \A z \in Requests \ {q} : pc'[z] = pc[z] /\ kind'[z] = kind[z]
                                       /\ domains'[z] = domains[z] /\ saw'[z] = saw[z],
           Own(q)',
           \A d \in Domains : found'[d].status = "approved"
                                => found[d].status = "approved" \/ d \in Values'
    PROVE  AddedInv'
<1>1. ASSUME NEW z \in Requests \ {q} PROVE Own(z)'
  BY <1>1 DEF AddedInv, Own
<1> QED BY <1>1 DEF AddedInv

(* A request that is received is what it was received as.                  *)
LEMMA ReceivedOne ==
    ASSUME TypeInv, NEW q \in Requests, NEW k, NEW D, NEW r, NEW step,
           Receive(q, k, D, r, step)
    PROVE  /\ pc'[q] = step /\ kind'[q] = k /\ domains'[q] = D /\ saw'[q] = r
           /\ \A z \in Requests \ {q} : pc'[z] = pc[z] /\ kind'[z] = kind[z]
                                          /\ domains'[z] = domains[z] /\ saw'[z] = saw[z]
BY DEF Receive, GoTo, TypeInv, TypeOK

LEMMA ReceivingAdded ==
    ASSUME TypeInv, AddedInv, NoneDeleted, NEW q \in Requests,
           Click(q) \/ Import(q) \/ Approve(q) \/ Reject(q) \/ Toggle(q)
    PROVE  AddedInv'
<1>v. Values' = Values BY DEF Click, Import, Approve, Reject, Toggle, Values
<1>1. CASE Click(q)
  <2>1. PICK D \in SUBSET Domains, k \in {"click", "autoClick"},
             step \in {"done", "checking", "queueing"} :
          /\ Receive(q, k, D, SawNothing, step)
          /\ step = "done" => D = {}
          /\ step = "queueing" => k = "click"
          /\ step = "checking" => k \in Adders
    BY <1>1, ClickReceives
  <2>2. /\ pc'[q] = step /\ kind'[q] = k /\ domains'[q] = D
        /\ \A z \in Requests \ {q} : pc'[z] = pc[z] /\ kind'[z] = kind[z]
                                       /\ domains'[z] = domains[z] /\ saw'[z] = saw[z]
    BY <2>1, ReceivedOne
  <2>3. Own(q)' BY <2>1, <2>2 DEF Own
  <2> QED BY <1>1, <1>v, <2>2, <2>3, OthersKept DEF Click
<1>2. CASE Import(q)
  <2>1. PICK D \in SUBSET Domains :
          Receive(q, "import", D, SawNothing, IF D = {} THEN "done" ELSE "checking")
    BY <1>2 DEF Import
  <2>2. /\ pc'[q] = (IF D = {} THEN "done" ELSE "checking") /\ domains'[q] = D
        /\ \A z \in Requests \ {q} : pc'[z] = pc[z] /\ kind'[z] = kind[z]
                                       /\ domains'[z] = domains[z] /\ saw'[z] = saw[z]
    BY <2>1, ReceivedOne
  <2>3. Own(q)' BY <2>2 DEF Own
  <2> QED BY <1>2, <1>v, <2>2, <2>3, OthersKept DEF Import
<1>3. CASE Approve(q)
  <2>1. PICK d \in Domains, k \in {"approve", "approveTool"}, step \in {"done", "checking"} :
          /\ found[d].status \in Statuses
          /\ Receive(q, k, {d}, [seeds |-> {}, status |-> found[d].status], step)
          /\ step = "done" /\ k = "approve" => found[d].status # "pending"
          /\ step = "done" /\ k = "approveTool" => found[d].status = "none"
    BY <1>3, ApproveReceives
  <2> DEFINE r == [seeds |-> {}, status |-> found[d].status]
  <2>2. r.status = found[d].status /\ Receive(q, k, {d}, r, step)
    BY <2>1
  <2> HIDE DEF r
  <2>3. /\ pc'[q] = step /\ kind'[q] = k /\ saw'[q] = r
        /\ \A z \in Requests \ {q} : pc'[z] = pc[z] /\ kind'[z] = kind[z]
                                       /\ domains'[z] = domains[z] /\ saw'[z] = saw[z]
    BY <2>2, ReceivedOne
  <2>4. Own(q)' BY <2>1, <2>2, <2>3 DEF Own
  <2> QED BY <1>3, <1>v, <2>3, <2>4, OthersKept DEF Approve
<1>4. CASE Reject(q)
  <2>1. PICK d \in Domains :
          /\ Receive(q, "reject", {d}, SawNothing, "done")
          /\ found' = [found EXCEPT ![d].status = "rejected"]
    BY <1>4 DEF Reject
  <2>2. /\ pc'[q] = "done" /\ kind'[q] = "reject"
        /\ \A z \in Requests \ {q} : pc'[z] = pc[z] /\ kind'[z] = kind[z]
                                       /\ domains'[z] = domains[z] /\ saw'[z] = saw[z]
    BY <2>1, ReceivedOne
  <2>3. Own(q)' BY <2>2 DEF Own
  <2>4. \A z \in Domains : found'[z].status = "approved" => found[z].status = "approved"
    BY <2>1 DEF TypeInv, TypeOK, Found
  <2> QED BY <1>v, <2>2, <2>3, <2>4, OthersKept
<1>5. CASE Toggle(q)
  <2>1. PICK z \in seeds :
          Receive(q, "toggle", {z.value}, [seeds |-> {z}, status |-> "none"], "toggling")
    BY <1>5 DEF Toggle
  <2>2. /\ pc'[q] = "toggling"
        /\ \A y \in Requests \ {q} : pc'[y] = pc[y] /\ kind'[y] = kind[y]
                                       /\ domains'[y] = domains[y] /\ saw'[y] = saw[y]
    BY <2>1, ReceivedOne
  <2>3. Own(q)' BY <2>2 DEF Own
  <2> QED BY <1>5, <1>v, <2>2, <2>3, OthersKept DEF Toggle
<1> QED BY <1>1, <1>2, <1>3, <1>4, <1>5

LEMMA GoingOnAdded ==
    ASSUME TypeInv, AddedInv, NoneDeleted, NEW q \in Requests,
           \/ QueueDomains(q) \/ CheckSeeds(q) \/ InsertSeeds(q) \/ InsertClashes(q)
           \/ MarkApproved(q) \/ WriteToggle(q) \/ ToggleGone(q) \/ Lose(q)
    PROVE  AddedInv'
<1>t. /\ pc \in [Requests -> Steps] /\ found \in [Domains -> Found]
      /\ saw \in [Requests -> [seeds : SUBSET Seed, status : Statuses]]
      /\ domains \in [Requests -> SUBSET Domains] /\ seeds \subseteq Seed
  BY DEF TypeInv, TypeOK
<1>o. Own(q) /\ KindsFit BY DEF AddedInv, TypeInv
<1>1. CASE QueueDomains(q)
  <2>1. \A d \in Domains : found'[d].status = "approved" => found[d].status = "approved"
    BY <1>1, <1>t DEF QueueDomains, Requeued
  <2>2. Own(q)' BY <1>1, <1>t, <1>o DEF QueueDomains, GoTo, Own, KindsFit
  <2> QED BY <1>1, <1>t, <2>1, <2>2, OthersKept DEF QueueDomains, GoTo, Values
<1>2. CASE CheckSeeds(q)
  <2>1. saw'[q].seeds = {s \in seeds : s.value \in domains[q]} BY <1>2, <1>t DEF CheckSeeds
  <2>2. Own(q)' BY <1>2, <1>t, <2>1 DEF CheckSeeds, GoTo, Own, Values
  <2> QED BY <1>2, <1>t, <2>2, OthersKept DEF CheckSeeds, GoTo, Values
<1>3. CASE InsertSeeds(q)
  <2>1. \A d \in Missing(q) : d \in Values'
    <3>1. ASSUME NEW d \in Missing(q) PROVE d \in Values'
      <4> DEFINE n == [value |-> d, id |-> inserts, enabled |-> TRUE]
      <4>1. n \in seeds' /\ n.value = d BY <1>3 DEF InsertSeeds, Inserted
      <4> HIDE DEF n
      <4> QED BY <4>1 DEF Values
    <3> QED BY <3>1
  <2>2. \A v \in Values : v \in Values' BY <1>3 DEF InsertSeeds, Values
  <2>3. \A d \in domains[q] : d \in Values'
    BY <1>3, <1>o, <2>1, <2>2 DEF InsertSeeds, Missing, Own
  <2>4. Own(q)' BY <1>3, <1>t, <2>3 DEF InsertSeeds, GoTo, AfterInsert, Own
  <2> QED BY <1>3, <1>t, <2>2, <2>4, OthersKept DEF InsertSeeds, GoTo
<1>4. CASE InsertClashes(q)
  <2>1. Own(q)' BY <1>4, <1>t DEF InsertClashes, GoTo, Own
  <2> QED BY <1>4, <1>t, <2>1, OthersKept DEF InsertClashes, GoTo, Values
<1>5. CASE MarkApproved(q)
  <2>1. domains[q] \subseteq Values /\ Values' = Values
    BY <1>5, <1>o DEF MarkApproved, Own, Values
  <2>2. Own(q)' BY <1>5, <1>t, <2>1 DEF MarkApproved, GoTo, Own
  <2>3. \A d \in Domains : found'[d].status = "approved"
                             => found[d].status = "approved" \/ d \in Values'
    BY <1>5, <1>t, <2>1 DEF MarkApproved
  <2> QED BY <1>5, <1>t, <2>1, <2>2, <2>3, OthersKept DEF MarkApproved, GoTo
<1>6. CASE WriteToggle(q)
  <2>1. \A v \in Values : v \in Values'
    <3>1. PICK s \in saw[q].seeds, z \in seeds :
            seeds' = (seeds \ {z}) \cup {[z EXCEPT !.enabled = ~s.enabled]}
      BY <1>6 DEF WriteToggle
    <3> DEFINE n == [z EXCEPT !.enabled = ~s.enabled]
    <3>2. n.value = z.value BY <1>t DEF Seed
    <3>3. seeds' = (seeds \ {z}) \cup {n} BY <3>1
    <3> HIDE DEF n
    <3> QED BY <3>2, <3>3 DEF Values
  <2>2. Own(q)' BY <1>6, <1>t, <1>o DEF WriteToggle, GoTo, Own, KindsFit
  <2> QED BY <1>6, <1>t, <2>1, <2>2, OthersKept DEF WriteToggle, GoTo
<1>7. CASE ToggleGone(q)
  <2>1. Own(q)' BY <1>7, <1>t DEF ToggleGone, GoTo, Own
  <2> QED BY <1>7, <1>t, <2>1, OthersKept DEF ToggleGone, GoTo, Values
<1>8. CASE Lose(q)
  <2>1. Own(q)' BY <1>8, <1>t DEF Lose, GoTo, Own
  <2> QED BY <1>8, <1>t, <2>1, OthersKept DEF Lose, GoTo, Values
<1> QED BY <1>1, <1>2, <1>3, <1>4, <1>5, <1>6, <1>7, <1>8

LEMMA NextAdded == TypeInv /\ AddedInv /\ [Next]_vars => AddedInv'
<1> SUFFICES ASSUME TypeInv, AddedInv, [Next]_vars, NoneDeleted' PROVE AddedInv'
  BY DEF AddedInv
<1>n. NoneDeleted BY StillDeleted
<1>1. CASE UNCHANGED vars BY <1>1 DEF vars, AddedInv, Own, NoneDeleted, Values
<1>2. ASSUME NEW q \in Requests, Delete(q) PROVE FALSE
  <2>1. kind'[q] = "delete" BY <1>2 DEF Delete, Receive, TypeInv, TypeOK
  <2> QED BY <2>1 DEF NoneDeleted
<1> QED BY <1>n, <1>1, <1>2, ReceivingAdded, GoingOnAdded DEF Next, Answered

LEMMA AllAreAdded == Spec => []AddedInv
<1>1. Init => AddedInv BY DEF Init, AddedInv, Own
<1> QED BY <1>1, NextAdded, TypesCorrect, PTL DEF Spec

(* As long as no seed is deleted, a domain that is marked approved is a    *)
(* seed, wherever the requests that approve it are cut short.              *)
THEOREM Promoted == Spec => []ApprovedIsSeed
<1>1. AddedInv => ApprovedIsSeed BY DEF AddedInv, ApprovedIsSeed
<1> QED BY <1>1, AllAreAdded, PTL

(* As long as no seed is deleted, a request that adds domains and succeeds *)
(* leaves every one of them a seed.                                        *)
THEOREM Added == Spec => []AllAdded
<1>1. AddedInv => AllAdded BY DEF AddedInv, Own, AllAdded
<1> QED BY <1>1, AllAreAdded, PTL

-----------------------------------------------------------------------------
(* What waits for review although it is a seed.                            *)

(* What an approval has read about its domain still tells where the domain *)
(* is; once the approval is over, the domain is decided.                   *)
Reviewed(q) ==
    Approval(q) =>
        /\ pc[q] \in {"checking", "inserting", "marking"} => saw[q].status # "none"
        /\ saw[q].status # "none" =>
              \A d \in domains[q] :
                  /\ found[d].status # "none"
                  /\ saw[q].status \in Decisions \/ pc[q] = "done"
                       => found[d].status \in Decisions

(* A seed that nobody has decided about may be one that no click has       *)
(* harvested yet: it has the same requests behind it when one does.        *)
SettledInv ==
    /\ \A d \in Values :
          found[d].status \notin Decisions => \E q \in Requests : MayWait(q, d)
    /\ \A q \in Requests : Reviewed(q)

(* A step of q has to answer for the seeds it adds, for what q was behind, *)
(* and for what q has read.                                                *)
LEMMA OthersSettled ==
    ASSUME TypeInv, TypeInv', SettledInv, [Next]_vars, NEW q \in Requests,
           \A z \in Requests \ {q} : pc'[z] = pc[z] /\ kind'[z] = kind[z]
                                       /\ domains'[z] = domains[z] /\ saw'[z] = saw[z],
           \A d \in Values' : d \in Values \/ MayWait(q, d)',
           \A d \in Domains :
              MayWait(q, d) => MayWait(q, d)' \/ found'[d].status \in Decisions,
           Reviewed(q)'
    PROVE  SettledInv'
<1>v. Values \subseteq Domains /\ Values' \subseteq Domains
  BY DEF Values, TypeInv, TypeOK, Seed
<1>1. ASSUME NEW d \in Values', found'[d].status \notin Decisions
      PROVE  \E z \in Requests : MayWait(z, d)'
  <2>1. CASE MayWait(q, d)' BY <2>1
  <2>2. CASE d \in Values /\ ~MayWait(q, d)'
    <3>1. found[d].status \notin Decisions BY <1>1, <1>v, <2>2, StatusOnward
    <3>2. PICK z \in Requests : MayWait(z, d) BY <2>2, <3>1 DEF SettledInv
    <3>3. z # q BY <1>1, <1>v, <2>2, <3>2
    <3>4. MayWait(z, d)' BY <3>2, <3>3 DEF MayWait, Approval
    <3> QED BY <3>4
  <2> QED BY <2>1, <2>2
<1>2. ASSUME NEW z \in Requests \ {q} PROVE Reviewed(z)'
  <2>1. Reviewed(z) BY DEF SettledInv
  <2>2. domains[z] \subseteq Domains BY DEF TypeInv, TypeOK
  <2> QED BY <2>1, <2>2, StatusOnward DEF Reviewed, Approval
<1> QED BY <1>1, <1>2 DEF SettledInv

LEMMA ReceivingSettled ==
    ASSUME TypeInv, TypeInv', SettledInv, [Next]_vars, NEW q \in Requests,
           Click(q) \/ Import(q) \/ Approve(q) \/ Reject(q) \/ Toggle(q) \/ Delete(q)
    PROVE  SettledInv'
<1>v. \A d \in Values' : d \in Values
  BY DEF Click, Import, Approve, Reject, Toggle, Delete, Values
<1>n. pc[q] = "new" BY DEF Click, Import, Approve, Reject, Toggle, Delete, Receive
<1>w. \A d \in Domains : ~MayWait(q, d) BY <1>n DEF MayWait
<1>1. ASSUME NEW k, NEW D, NEW r, NEW step, Receive(q, k, D, r, step),
             k \notin {"approve", "approveTool"}
      PROVE  SettledInv'
  <2>1. Reviewed(q)' BY <1>1, ReceivedOne DEF Reviewed, Approval
  <2> QED BY <1>1, <1>v, <1>w, <2>1, ReceivedOne, OthersSettled
<1>2. CASE Approve(q)
  <2>1. PICK d \in Domains, k \in {"approve", "approveTool"}, step \in {"done", "checking"} :
          /\ found[d].status \in Statuses
          /\ Receive(q, k, {d}, [seeds |-> {}, status |-> found[d].status], step)
          /\ step = "done" /\ k = "approve" => found[d].status # "pending"
          /\ step = "done" /\ k = "approveTool" => found[d].status = "none"
          /\ step = "checking" => found[d].status # "none"
    BY <1>2, ApproveReceives
  <2> DEFINE r == [seeds |-> {}, status |-> found[d].status]
  <2>2. r.status = found[d].status /\ Receive(q, k, {d}, r, step) BY <2>1
  <2> HIDE DEF r
  <2>3. /\ pc'[q] = step /\ domains'[q] = {d} /\ saw'[q] = r
        /\ \A z \in Requests \ {q} : pc'[z] = pc[z] /\ kind'[z] = kind[z]
                                       /\ domains'[z] = domains[z] /\ saw'[z] = saw[z]
    BY <2>2, ReceivedOne
  <2>4. found' = found BY <1>2 DEF Approve
  <2>5. Reviewed(q)' BY <2>1, <2>2, <2>3, <2>4 DEF Reviewed, Statuses, Decisions
  <2> QED BY <1>v, <1>w, <2>3, <2>5, OthersSettled
<1>3. CASE Click(q) BY <1>1, <1>3 DEF Click
<1>4. CASE Import(q) BY <1>1, <1>4 DEF Import
<1>5. CASE Reject(q) BY <1>1, <1>5 DEF Reject
<1>6. CASE Toggle(q) BY <1>1, <1>6 DEF Toggle
<1>7. CASE Delete(q) BY <1>1, <1>7 DEF Delete
<1> QED BY <1>2, <1>3, <1>4, <1>5, <1>6, <1>7

LEMMA GoingOnSettled ==
    ASSUME TypeInv, TypeInv', SettledInv, [Next]_vars, NEW q \in Requests,
           \/ QueueDomains(q) \/ CheckSeeds(q) \/ InsertSeeds(q) \/ InsertClashes(q)
           \/ MarkApproved(q) \/ WriteToggle(q) \/ ToggleGone(q) \/ Lose(q)
    PROVE  SettledInv'
<1>t. /\ pc \in [Requests -> Steps] /\ found \in [Domains -> Found]
      /\ saw \in [Requests -> [seeds : SUBSET Seed, status : Statuses]]
      /\ domains \in [Requests -> SUBSET Domains] /\ seeds \subseteq Seed
  BY DEF TypeInv, TypeOK
<1>r. Reviewed(q) /\ KindsFit BY DEF SettledInv, TypeInv
<1>u. /\ UNCHANGED <<kind, domains>> /\ saw'[q].status = saw[q].status
      /\ \A z \in Requests \ {q} : pc'[z] = pc[z] /\ kind'[z] = kind[z]
                                     /\ domains'[z] = domains[z] /\ saw'[z] = saw[z]
  BY <1>t
  DEF QueueDomains, CheckSeeds, InsertSeeds, InsertClashes, MarkApproved, WriteToggle,
      ToggleGone, Lose, GoTo
<1>d. \A d \in domains[q] :
         /\ found[d].status # "none" => found'[d].status # "none"
         /\ found[d].status \in Decisions => found'[d].status \in Decisions
  BY <1>t, StatusOnward
<1>1. ASSUME Values' \subseteq Values, ~(pc[q] = "marking"),
             pc[q] \in {"queueing", "checking", "inserting", "toggling"},
             pc'[q] = "done" => ~Approval(q),
             pc'[q] \in {"inserting", "done", "failed", "lost"},
             pc'[q] = "inserting" => pc[q] = "checking"
      PROVE  SettledInv'
  <2>1. \A d \in Domains : ~MayWait(q, d) BY <1>1 DEF MayWait
  <2>2. Reviewed(q)' BY <1>1, <1>r, <1>u, <1>d DEF Reviewed, Approval
  <2> QED BY <1>1, <1>u, <2>1, <2>2, OthersSettled
<1>2. CASE QueueDomains(q) \/ CheckSeeds(q) \/ InsertClashes(q) \/ ToggleGone(q)
  <2>1. Values' \subseteq Values
    BY <1>2 DEF QueueDomains, CheckSeeds, InsertClashes, ToggleGone, Values
  <2> QED
    BY <1>1, <1>2, <1>r, <1>t, <2>1
    DEF QueueDomains, CheckSeeds, InsertClashes, ToggleGone, GoTo, KindsFit, Approval
<1>3. CASE WriteToggle(q)
  <2>1. PICK s \in saw[q].seeds, z \in seeds :
          seeds' = (seeds \ {z}) \cup {[z EXCEPT !.enabled = ~s.enabled]}
    BY <1>3 DEF WriteToggle
  <2> DEFINE n == [z EXCEPT !.enabled = ~s.enabled]
  <2>2. n.value = z.value BY <1>t DEF Seed
  <2>3. seeds' = (seeds \ {z}) \cup {n} BY <2>1
  <2> HIDE DEF n
  <2>4. Values' \subseteq Values BY <2>2, <2>3 DEF Values
  <2> QED BY <1>1, <1>3, <1>r, <1>t, <2>4 DEF WriteToggle, GoTo, KindsFit, Approval
<1>4. CASE InsertSeeds(q)
  <2>1. pc[q] = "inserting" /\ kind[q] \in Adders BY <1>4, <1>r DEF InsertSeeds, KindsFit
  <2>2. pc'[q] = IF Approval(q) THEN "marking" ELSE "done"
    BY <1>4, <1>t DEF InsertSeeds, GoTo, AfterInsert, Approval
  <2>3. \A d \in domains[q] : MayWait(q, d)'
    BY <1>u, <2>1, <2>2 DEF MayWait, Approval, Adders
  <2>4. ASSUME NEW d \in Values' PROVE d \in Values \/ d \in domains[q]
    <3>1. PICK s \in seeds' : s.value = d BY DEF Values
    <3>2. s \in seeds \/ s \in Inserted(q) BY <1>4, <3>1 DEF InsertSeeds
    <3> QED BY <3>1, <3>2 DEF Values, Inserted, Missing
  <2>5. \A d \in Domains : ~MayWait(q, d) BY <2>1 DEF MayWait
  <2>6. Reviewed(q)' BY <1>r, <1>u, <1>d, <2>1, <2>2 DEF Reviewed, Approval
  <2> QED BY <1>u, <2>3, <2>4, <2>5, <2>6, OthersSettled
<1>5. CASE MarkApproved(q)
  <2>1. pc[q] = "marking" /\ pc'[q] = "done" /\ Approval(q) /\ Values' = Values
    BY <1>5, <1>r, <1>t DEF MarkApproved, GoTo, KindsFit, Approval, Values
  <2>2. ASSUME NEW d \in domains[q] PROVE found'[d].status \in Decisions
    <3>1. CASE saw[q].status = "approved"
      <4>1. found[d].status \in Decisions BY <1>r, <2>1, <3>1 DEF Reviewed, Decisions
      <4> QED BY <1>d, <4>1
    <3>2. CASE saw[q].status # "approved"
      <4>1. d \in Domains BY <1>t
      <4> QED BY <1>5, <1>t, <3>2, <4>1 DEF MarkApproved, Found, Decisions
    <3> QED BY <3>1, <3>2
  <2>3. \A d \in Domains : MayWait(q, d) => found'[d].status \in Decisions
    BY <2>2 DEF MayWait
  <2>4. Reviewed(q)' BY <1>u, <2>1, <2>2 DEF Reviewed, Approval, Decisions
  <2> QED BY <1>u, <2>1, <2>3, <2>4, OthersSettled
<1>6. CASE Lose(q)
  <2>1. pc'[q] = "lost" /\ Values' = Values /\ pc[q] # "done"
    BY <1>6, <1>t DEF Lose, GoTo, Values
  <2>2. \A d \in Domains : MayWait(q, d) => MayWait(q, d)'
    BY <1>u, <2>1 DEF MayWait, Approval
  <2>3. Reviewed(q)' BY <1>r, <1>u, <1>d, <2>1 DEF Reviewed, Approval
  <2> QED BY <1>u, <2>1, <2>2, <2>3, OthersSettled
<1> QED BY <1>2, <1>3, <1>4, <1>5, <1>6

LEMMA NextSettled == TypeInv /\ TypeInv' /\ SettledInv /\ [Next]_vars => SettledInv'
<1> SUFFICES ASSUME TypeInv, TypeInv', SettledInv, [Next]_vars PROVE SettledInv' OBVIOUS
<1>1. CASE UNCHANGED vars
  BY <1>1 DEF vars, SettledInv, Values, MayWait, Reviewed, Approval
<1> QED BY <1>1, ReceivingSettled, GoingOnSettled DEF Next, Answered

(* A seed whose domain waits for review was added by hand, by a click, or  *)
(* by an approval that is between its commits or was cut off there; and an *)
(* approval that succeeds, also after others were cut off, leaves its      *)
(* domain decided.  Seeds may be deleted at any time.                      *)
THEOREM Settled == Spec => []ReviewSettled
<1>1. Init => SettledInv BY DEF Init, SettledInv, Values, Reviewed, Approval
<1>2. TypeInv /\ SettledInv => ReviewSettled
  BY DEF SettledInv, Reviewed, ReviewSettled, Approval, Decisions
<1>3. Spec => []TypeInv BY TypesCorrect
<1> QED BY <1>1, <1>2, <1>3, NextSettled, PTL DEF Spec

-----------------------------------------------------------------------------
(* Every click is counted.                                                 *)

Counted(q, d) == kind[q] = "click" /\ pc[q] = "done" /\ d \in domains[q]
CountedFor(d) == {q \in Requests : Counted(q, d)}
Before(d) == IF d \in Queued THEN 1 ELSE 0

LEMMA SameCount ==
    ASSUME EveryClickCounts,
           \A d \in Domains : found'[d].seen = found[d].seen,
           \A d \in Domains, q \in Requests : Counted(q, d)' <=> Counted(q, d)
    PROVE  EveryClickCounts'
<1>1. \A d \in Domains : CountedFor(d)' = CountedFor(d) BY DEF CountedFor
<1> QED BY <1>1 DEF EveryClickCounts, CountedFor, Counted

LEMMA ReceivingCounts ==
    ASSUME TypeInv, EveryClickCounts, NEW q \in Requests,
           Click(q) \/ Import(q) \/ Approve(q) \/ Reject(q) \/ Toggle(q) \/ Delete(q)
    PROVE  EveryClickCounts'
<1>1. ASSUME NEW k, NEW D, NEW r, NEW step, Receive(q, k, D, r, step),
             step = "done" /\ k = "click" => D = {}
      PROVE  \A d \in Domains, z \in Requests : Counted(z, d)' <=> Counted(z, d)
  <2>1. pc[q] = "new" BY <1>1 DEF Receive
  <2>2. \A d \in Domains : ~Counted(q, d) BY <2>1 DEF Counted
  <2>3. \A d \in Domains : ~Counted(q, d)' BY <1>1, ReceivedOne DEF Counted
  <2>4. \A d \in Domains, z \in Requests \ {q} : Counted(z, d)' <=> Counted(z, d)
    BY <1>1, ReceivedOne DEF Counted
  <2> QED BY <2>2, <2>3, <2>4
<1>2. \A d \in Domains : found'[d].seen = found[d].seen
  <2>1. found \in [Domains -> Found] BY DEF TypeInv, TypeOK
  <2>2. CASE Reject(q) BY <2>1, <2>2 DEF Reject, Found
  <2>3. CASE UNCHANGED found BY <2>3
  <2> QED BY <2>2, <2>3 DEF Click, Import, Approve, Toggle, Delete
<1>3. CASE Click(q)
  <2>1. PICK D \in SUBSET Domains, k \in {"click", "autoClick"},
             step \in {"done", "checking", "queueing"} :
          Receive(q, k, D, SawNothing, step) /\ (step = "done" => D = {})
    BY <1>3, ClickReceives
  <2> QED BY <1>1, <1>2, <2>1, SameCount
<1>4. CASE Approve(q)
  <2>1. PICK d \in Domains, k \in {"approve", "approveTool"}, step \in {"done", "checking"} :
          Receive(q, k, {d}, [seeds |-> {}, status |-> found[d].status], step)
    BY <1>4, ApproveReceives
  <2>2. k # "click" OBVIOUS
  <2> QED BY <1>1, <1>2, <2>1, <2>2, SameCount
<1>5. CASE Import(q) BY <1>1, <1>2, <1>5, SameCount DEF Import
<1>6. CASE Reject(q) BY <1>1, <1>2, <1>6, SameCount DEF Reject
<1>7. CASE Toggle(q) BY <1>1, <1>2, <1>7, SameCount DEF Toggle
<1>8. CASE Delete(q) BY <1>1, <1>2, <1>8, SameCount DEF Delete
<1> QED BY <1>3, <1>4, <1>5, <1>6, <1>7, <1>8

LEMMA GoingOnCounts ==
    ASSUME TypeInv, EveryClickCounts, NEW q \in Requests,
           \/ CheckSeeds(q) \/ InsertSeeds(q) \/ InsertClashes(q)
           \/ MarkApproved(q) \/ WriteToggle(q) \/ ToggleGone(q) \/ Lose(q)
    PROVE  EveryClickCounts'
<1>1. UNCHANGED <<kind, domains>>
  BY DEF CheckSeeds, InsertSeeds, InsertClashes, MarkApproved, WriteToggle, ToggleGone, Lose
<1>2. \A d \in Domains : found'[d].seen = found[d].seen
  BY DEF CheckSeeds, InsertSeeds, InsertClashes, MarkApproved, WriteToggle, ToggleGone, Lose,
         TypeInv, TypeOK, Found
<1>3. \A z \in Requests \ {q} : pc'[z] = pc[z]
  BY DEF CheckSeeds, InsertSeeds, InsertClashes, MarkApproved, WriteToggle, ToggleGone, Lose,
         GoTo, TypeInv, TypeOK
<1>4. pc[q] # "done" /\ (kind[q] = "click" => pc'[q] # "done")
  BY DEF CheckSeeds, InsertSeeds, InsertClashes, MarkApproved, WriteToggle, ToggleGone, Lose,
         GoTo, TypeInv, TypeOK, KindsFit, Adders
<1>5. \A d \in Domains, z \in Requests : Counted(z, d)' <=> Counted(z, d)
  BY <1>1, <1>3, <1>4 DEF Counted
<1> QED BY <1>2, <1>5, SameCount

(* The upsert of a click raises the count of exactly the domains of the    *)
(* click, and the click is counted from now on.                            *)
LEMMA QueueCounts ==
    ASSUME TypeInv, EveryClickCounts, NEW q \in Requests, QueueDomains(q)
    PROVE  EveryClickCounts'
<1>t. /\ pc \in [Requests -> Steps] /\ found \in [Domains -> Found]
      /\ pc[q] = "queueing" /\ kind[q] = "click"
  BY DEF QueueDomains, TypeInv, TypeOK, KindsFit
<1> SUFFICES ASSUME NEW d \in Domains
             PROVE  found'[d].seen = Before(d) + Cardinality(CountedFor(d)')
  BY DEF EveryClickCounts, Before, CountedFor, Counted
<1>1. found[d].seen = Before(d) + Cardinality(CountedFor(d))
  BY DEF EveryClickCounts, Before, CountedFor, Counted
<1>2. IsFiniteSet(CountedFor(d)) /\ Cardinality(CountedFor(d)) \in Nat
  <2>1. CountedFor(d) \subseteq Requests BY DEF CountedFor
  <2> QED BY <2>1, SelfSeedingAssumption, FS_Subset, FS_CardinalityType
<1>3. q \notin CountedFor(d) BY <1>t DEF CountedFor, Counted
<1>4. \A z \in Requests \ {q} : Counted(z, d)' <=> Counted(z, d)
  BY <1>t DEF QueueDomains, GoTo, Counted
<1>5. Counted(q, d)' <=> d \in domains[q] BY <1>t DEF QueueDomains, GoTo, Counted
<1>6. Before(d) \in Nat BY DEF Before
<1>7. CASE d \in domains[q]
  <2>1. CountedFor(d)' = CountedFor(d) \cup {q} BY <1>3, <1>4, <1>5, <1>7 DEF CountedFor
  <2>2. Cardinality(CountedFor(d)') = Cardinality(CountedFor(d)) + 1
    BY <1>2, <1>3, <2>1, FS_AddElement
  <2>3. found'[d].seen = found[d].seen + 1 BY <1>t, <1>7 DEF QueueDomains, Requeued
  <2> QED BY <1>1, <1>2, <1>6, <2>2, <2>3
<1>8. CASE d \notin domains[q]
  <2>1. CountedFor(d)' = CountedFor(d) BY <1>3, <1>4, <1>5, <1>8 DEF CountedFor
  <2>2. found'[d].seen = found[d].seen BY <1>t, <1>8 DEF QueueDomains
  <2> QED BY <1>1, <2>1, <2>2
<1> QED BY <1>7, <1>8

(* times_seen of a domain is the number of clicks that queued it, however  *)
(* the clicks overlap, with each other and with the review.                *)
THEOREM Counts == Spec => []EveryClickCounts
<1>1. Init => EveryClickCounts
  <2> SUFFICES ASSUME Init, NEW d \in Domains
               PROVE  found[d].seen = Before(d) + Cardinality(CountedFor(d))
    BY DEF EveryClickCounts, Before, CountedFor, Counted
  <2>1. CountedFor(d) = {} BY DEF Init, CountedFor, Counted
  <2>2. Cardinality(CountedFor(d)) = 0 BY <2>1, FS_EmptySet
  <2> QED BY <2>2 DEF Init, Before
<1>2. TypeInv /\ EveryClickCounts /\ [Next]_vars => EveryClickCounts'
  <2> SUFFICES ASSUME TypeInv, EveryClickCounts, [Next]_vars PROVE EveryClickCounts' OBVIOUS
  <2>1. CASE UNCHANGED vars BY <2>1, SameCount DEF vars, Counted
  <2> QED BY <2>1, ReceivingCounts, GoingOnCounts, QueueCounts DEF Next, Answered
<1> QED BY <1>1, <1>2, TypesCorrect, PTL DEF Spec

=============================================================================
