---------------------------- MODULE SelfSeeding -----------------------------
(***************************************************************************)
(* How the table seeds grows: clicks on search results harvest the domains *)
(* a page links to (seeding/discover.py), the administrator reviews them,  *)
(* adds, imports, toggles and deletes seeds (routers/admin.py and the      *)
(* tools of mcp_server.py).  Every request runs in a session of its own,   *)
(* reads, decides in memory and writes later; PostgreSQL (READ COMMITTED)  *)
(* keeps seeds.value unique.  Seeds are domain-scoped here, so a URL is in *)
(* scope if its domain is the value of an enabled seed.                    *)
(***************************************************************************)
EXTENDS Naturals, FiniteSets

CONSTANTS
    Domains,    \* registrable domains
    Harvests,   \* what pages link to: sets of domains
    Queued,     \* domains that wait for review from earlier clicks
    Requests,   \* HTTP requests and tool calls
    Kinds       \* what a request may be: "autoClick" is a click on a server
                \* with settings.self_seed_auto_add, "click" one without

ASSUME SelfSeedingAssumption ==
    /\ IsFiniteSet(Requests)
    /\ Harvests \subseteq SUBSET Domains /\ Queued \subseteq Domains
    /\ Kinds \subseteq {"click", "autoClick", "import", "approve", "approveTool",
                        "reject", "toggle", "delete"}

VARIABLES
    seeds,      \* rows of the table seeds
    inserts,    \* number of inserts so far: a row's id is the insert it is from
    found,      \* discovered_domains, by its unique domain
    pc, kind,   \* where each request is, and what it is
    domains,    \* the domains it is about
    saw         \* what it has read: rows of seeds, the status of its domain

vars == <<seeds, inserts, found, pc, kind, domains, saw>>

Seed == [value : Domains, id : Nat, enabled : BOOLEAN]
Statuses == {"none", "pending", "approved", "rejected"}
Found == [status : Statuses, seen : Nat]
Steps == {"new", "queueing", "checking", "inserting", "marking", "toggling",
          "done", "failed", "lost"}

TypeOK ==
    /\ seeds \subseteq Seed
    /\ inserts \in Nat
    /\ found \in [Domains -> Found]
    /\ pc \in [Requests -> Steps]
    /\ kind \in [Requests -> Kinds \cup {"none"}]
    /\ domains \in [Requests -> SUBSET Domains]
    /\ saw \in [Requests -> [seeds : SUBSET Seed, status : Statuses]]

Values == {s.value : s \in seeds}
Enabled == {s.value : s \in {z \in seeds : z.enabled}}
SawNothing == [seeds |-> {}, status |-> "none"]

Init ==
    /\ seeds = {}
    /\ inserts = 0
    /\ found = [d \in Domains |-> IF d \in Queued
                                  THEN [status |-> "pending", seen |-> 1]
                                  ELSE [status |-> "none", seen |-> 0]]
    /\ pc = [q \in Requests |-> "new"]
    /\ kind = [q \in Requests |-> "none"]
    /\ domains = [q \in Requests |-> {}]
    /\ saw = [q \in Requests |-> SawNothing]

-----------------------------------------------------------------------------
GoTo(q, step) == pc' = [pc EXCEPT ![q] = step]

(* Request q turns out to be a k about the domains D and reads r.          *)
Receive(q, k, D, r, step) ==
    /\ pc[q] = "new" /\ k \in Kinds
    /\ kind' = [kind EXCEPT ![q] = k]
    /\ domains' = [domains EXCEPT ![q] = D]
    /\ saw' = [saw EXCEPT ![q] = r]
    /\ GoTo(q, step)

(* record_click reads the enabled seeds and the links of the page; the     *)
(* domains out of scope are candidates.                                    *)
Click(q) ==
    /\ \E H \in Harvests, k \in {"click", "autoClick"} :
          Receive(q, k, H \ Enabled, SawNothing,
                  IF H \subseteq Enabled THEN "done"
                  ELSE IF k = "autoClick" THEN "checking" ELSE "queueing")
    /\ UNCHANGED <<seeds, inserts, found>>

(* Mutant of Requeued: a repeat puts the domain back on the review queue.  *)
RequeuedPending(f) == [status |-> "pending", seen |-> f.seen + 1]

(* Mutant of Requeued: ON CONFLICT DO NOTHING.                             *)
RequeuedOnce(f) ==
    IF f.status = "none" THEN [status |-> "pending", seen |-> 1] ELSE f

(* The upsert of a candidate: a new row, or times_seen + 1.                *)
Requeued(f) ==
    [status |-> IF f.status = "none" THEN "pending" ELSE f.status,
     seen |-> f.seen + 1]

(* The upserts lock their rows until the commit and read them afresh, so   *)
(* the transaction is one step.                                            *)
QueueDomains(q) ==
    /\ pc[q] = "queueing"
    /\ found' = [d \in Domains |->
                    IF d \in domains[q] THEN Requeued(found[d]) ELSE found[d]]
    /\ GoTo(q, "done")
    /\ UNCHANGED <<seeds, inserts, kind, domains, saw>>

(* A seed is added, or a list of domains imported.                         *)
Import(q) ==
    /\ \E D \in SUBSET Domains :
          Receive(q, "import", D, SawNothing, IF D = {} THEN "done" ELSE "checking")
    /\ UNCHANGED <<seeds, inserts, found>>

(* Which of the domains are seeds already.                                 *)
CheckSeeds(q) ==
    /\ pc[q] = "checking"
    /\ saw' = [saw EXCEPT ![q].seeds = {s \in seeds : s.value \in domains[q]}]
    /\ GoTo(q, "inserting")
    /\ UNCHANGED <<seeds, inserts, found, kind, domains>>

Missing(q) == domains[q] \ {s.value : s \in saw[q].seeds}
Inserted(q) ==
    {[value |-> d, id |-> inserts, enabled |-> TRUE] : d \in Missing(q)}
AfterInsert(q) == IF kind[q] \in {"approve", "approveTool"} THEN "marking" ELSE "done"

(* The domains that were missing become seeds, in one transaction.         *)
InsertSeeds(q) ==
    /\ pc[q] = "inserting"
    /\ Missing(q) \cap Values = {}
    /\ seeds' = seeds \cup Inserted(q)
    /\ inserts' = inserts + 1
    /\ GoTo(q, AfterInsert(q))
    /\ UNCHANGED <<found, kind, domains, saw>>

(* Mutant of InsertClashes: the error is swallowed.                        *)
InsertClashesUnnoticed(q) ==
    /\ pc[q] = "inserting"
    /\ Missing(q) \cap Values # {}
    /\ GoTo(q, AfterInsert(q))
    /\ UNCHANGED <<seeds, inserts, found, kind, domains, saw>>

(* Somebody else has inserted one of them since: the unique constraint is  *)
(* violated, everything is rolled back and the request fails.  A click     *)
(* catches the error, but its rollback expires the page whose url it needs *)
(* for the redirect, and reading that fails.                               *)
InsertClashes(q) ==
    /\ pc[q] = "inserting"
    /\ Missing(q) \cap Values # {}
    /\ GoTo(q, "failed")
    /\ UNCHANGED <<seeds, inserts, found, kind, domains, saw>>

-----------------------------------------------------------------------------
(* Review.                                                                 *)

(* Mutant of Approve: the status is set and committed before the seed is   *)
(* added.                                                                  *)
ApproveFirst(q) ==
    /\ \E d \in Domains, k \in {"approve", "approveTool"} :
          /\ found[d].status # "none"
          /\ Receive(q, k, {d}, [seeds |-> {}, status |-> found[d].status], "checking")
          /\ found' = [found EXCEPT ![d].status = "approved"]
    /\ UNCHANGED <<seeds, inserts>>

(* The form only goes on with a domain that it reads as pending, the tool  *)
(* with any; both add the seed first.                                      *)
Approve(q) ==
    /\ \E d \in Domains, k \in {"approve", "approveTool"} :
          LET st == found[d].status IN
          Receive(q, k, {d}, [seeds |-> {}, status |-> st],
                  IF st = "pending" \/ (k = "approveTool" /\ st # "none")
                  THEN "checking" ELSE "done")
    /\ UNCHANGED <<seeds, inserts, found>>

(* Mutant of MarkApproved: the status is left alone if the domain was a    *)
(* seed already.                                                           *)
MarkApprovedIfAdded(q) ==
    /\ pc[q] = "marking"
    /\ found' = [d \in Domains |->
          IF d \in Missing(q) /\ saw[q].status # "approved"
          THEN [found[d] EXCEPT !.status = "approved"] ELSE found[d]]
    /\ GoTo(q, "done")
    /\ UNCHANGED <<seeds, inserts, kind, domains, saw>>

(* In a transaction of its own the status is set, unless it was read as    *)
(* approved: then nothing has changed for the session.                     *)
MarkApproved(q) ==
    /\ pc[q] = "marking"
    /\ found' = [d \in Domains |->
          IF d \in domains[q] /\ saw[q].status # "approved"
          THEN [found[d] EXCEPT !.status = "approved"] ELSE found[d]]
    /\ GoTo(q, "done")
    /\ UNCHANGED <<seeds, inserts, kind, domains, saw>>

(* One UPDATE, whatever the status.                                        *)
Reject(q) ==
    /\ \E d \in Domains :
          /\ found[d].status # "none"
          /\ Receive(q, "reject", {d}, SawNothing, "done")
          /\ found' = [found EXCEPT ![d].status = "rejected"]
    /\ UNCHANGED <<seeds, inserts>>

-----------------------------------------------------------------------------
(* Toggling and deleting seeds.                                            *)

(* toggle_seed, and set_seed_enabled when it has something to change, read *)
(* the row ...                                                             *)
Toggle(q) ==
    /\ \E s \in seeds :
          Receive(q, "toggle", {s.value}, [seeds |-> {s}, status |-> "none"], "toggling")
    /\ UNCHANGED <<seeds, inserts, found>>

Same(s, z) == s.value = z.value /\ s.id = z.id

(* ... and write the opposite of what they have read.                      *)
WriteToggle(q) ==
    /\ pc[q] = "toggling"
    /\ \E s \in saw[q].seeds, z \in seeds :
          /\ Same(s, z)
          /\ seeds' = (seeds \ {z}) \cup {[z EXCEPT !.enabled = ~s.enabled]}
    /\ GoTo(q, "done")
    /\ UNCHANGED <<inserts, found, kind, domains, saw>>

(* The row has been deleted since: the UPDATE matches no row, which is an  *)
(* error.                                                                  *)
ToggleGone(q) ==
    /\ pc[q] = "toggling"
    /\ \A s \in saw[q].seeds, z \in seeds : ~Same(s, z)
    /\ GoTo(q, "failed")
    /\ UNCHANGED <<seeds, inserts, found, kind, domains, saw>>

Delete(q) ==
    /\ \E s \in seeds : /\ Receive(q, "delete", {s.value}, SawNothing, "done")
                        /\ seeds' = seeds \ {s}
    /\ UNCHANGED <<inserts, found>>

(* The server stops in the middle of a request: what was not committed is  *)
(* gone, and so is the rest of the request.                                *)
Lose(q) ==
    /\ pc[q] \notin {"new", "done", "failed", "lost"}
    /\ GoTo(q, "lost")
    /\ UNCHANGED <<seeds, inserts, found, kind, domains, saw>>

(* Every request has been answered, or is one the system has no row for.   *)
Answered ==
    /\ \A q \in Requests : pc[q] \in {"new", "done", "failed", "lost"}
    /\ UNCHANGED vars

Next ==
    \/ \E q \in Requests :
          \/ Click(q) \/ QueueDomains(q) \/ Import(q)
          \/ CheckSeeds(q) \/ InsertSeeds(q) \/ InsertClashes(q)
          \/ Approve(q) \/ MarkApproved(q) \/ Reject(q)
          \/ Toggle(q) \/ WriteToggle(q) \/ ToggleGone(q) \/ Delete(q)
          \/ Lose(q)
    \/ Answered

Spec == Init /\ [][Next]_vars

-----------------------------------------------------------------------------
(* A request that added seeds and succeeded has added them all, also when  *)
(* others were adding some of them (as long as no seed has been deleted).  *)
(* The approval form adds what it has read as pending, the tool whatever   *)
(* is in the review table.                                                 *)
NoneDeleted == \A q \in Requests : kind[q] # "delete"
AllAdded ==
    NoneDeleted =>
        \A q \in Requests :
            pc[q] \in {"marking", "done"}
              /\ kind[q] \in {"import", "approve", "approveTool", "autoClick"}
              /\ (kind[q] = "approve" => saw[q].status = "pending")
              /\ (kind[q] = "approveTool" => saw[q].status # "none")
            => domains[q] \subseteq Values

(* "promote it to a seed and mark it approved" (mcp_server.py:332), in     *)
(* that order: wherever the requests are cut short, a domain is not marked *)
(* approved without being a seed (as long as no seed has been deleted).    *)
(* It can be a seed and not be marked: see ReviewSettled.                  *)
ApprovedIsSeed ==
    NoneDeleted =>
        \A d \in Domains : found[d].status = "approved" => d \in Values

(* A seed whose domain still waits for review has been added by hand or by *)
(* a click, or an approval is between its two commits or was cut off       *)
(* there.  Approving it again settles it: an approval that has succeeded   *)
(* leaves no domain waiting, whatever went wrong before and whoever else   *)
(* reviews, clicks or deletes meanwhile.                                   *)
Approval(q) == kind[q] \in {"approve", "approveTool"}
MayWait(q, d) ==
    /\ d \in domains[q]
    /\ \/ kind[q] \in {"import", "autoClick"} /\ pc[q] = "done"
       \/ Approval(q) /\ pc[q] \in {"marking", "lost"}
ReviewSettled ==
    /\ \A d \in Values :
          found[d].status = "pending" => \E q \in Requests : MayWait(q, d)
    /\ \A q \in Requests :
          Approval(q) /\ pc[q] = "done" =>
              \A d \in domains[q] : found[d].status = "pending" => saw[q].status = "none"

(* "bumping times_seen on repeats" (discover.py:49): no concurrent click   *)
(* is lost.                                                                *)
EveryClickCounts ==
    \A d \in Domains :
        found[d].seen = (IF d \in Queued THEN 1 ELSE 0)
            + Cardinality({q \in Requests : kind[q] = "click" /\ pc[q] = "done"
                                              /\ d \in domains[q]})

(* What somebody has decided about a domain is never undone by clicks: it  *)
(* does not come back to the review queue.                                 *)
DecisionsStick ==
    [][\A d \in Domains :
          found[d].status \in {"approved", "rejected"}
            => found'[d].status \in {"approved", "rejected"}]_vars

-----------------------------------------------------------------------------
(* What the repository says and its code does not do.                      *)

(* "self-seeding must never block navigation" (routers/search.py:62): a    *)
(* click ends with the redirect.                                           *)
ClicksNavigate ==
    \A q \in Requests : kind[q] \in {"click", "autoClick"} => pc[q] # "failed"

=============================================================================
