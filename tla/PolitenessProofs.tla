-------------------------- MODULE PolitenessProofs --------------------------
(***************************************************************************)
(* Proofs about Politeness for any number of tasks, hosts and sites and    *)
(* any delay.                                                              *)
(***************************************************************************)
EXTENDS Politeness, SequenceTheorems, TLAPS

(* What the steps need to know of the types.                               *)
Types ==
    /\ pc \in [Tasks -> {"idle", "loading", "waiting", "sleeping", "fetching", "gone"}]
    /\ site \in [Tasks -> Sites \cup {NoSite}]
    /\ private \in [Tasks -> BOOLEAN]
    /\ parser \in [Sites -> {"none", "rules", "all"}]
    /\ holder = [h \in Hosts |-> holder[h]]
    /\ sinceHit \in [Hosts -> 0..Delay]
    /\ sleep \in [Tasks -> 0..Delay]
    /\ \A t \in Tasks : pc[t] \in {"loading", "waiting", "sleeping", "fetching"}
                          => site[t] \in Sites

(* A task that sleeps has the lock of its host, and when it wakes the      *)
(* delay is over.                                                          *)
SleepsEnough ==
    \A t \in Tasks : pc[t] = "sleeping" =>
        /\ HasLock(t)
        /\ sleep[t] + sinceHit[Host(t)] >= Delay

(* The Fetcher's clock of a host tells when its last page was requested.   *)
SpacedInv ==
    /\ Types
    /\ PagesSpaced
    /\ sinceHit = sincePage
    /\ SleepsEnough

USE DEF cacheVars, lockVars, clocks, observed

LEMMA InitSpaced == Init => SpacedInv
BY PolitenessAssumption
DEF Init, SpacedInv, Types, PagesSpaced, SleepsEnough

(* A lock that changes hands was nobody's.                                 *)
LEMMA JoinTakesFree ==
    ASSUME Types, NEW t \in Tasks, NEW h \in Hosts, JoinLock(t, h)
    PROVE  /\ holder' = [g \in Hosts |-> holder'[g]]
           /\ \A g \in Hosts : holder[g] # NoTask => holder'[g] = holder[g]
BY DEF Types, JoinLock

(* Nobody else's lock changes hands when one is released.                  *)
LEMMA PassMovesOne ==
    ASSUME Types, NEW h \in Hosts, PassLock(h)
    PROVE  /\ holder' = [g \in Hosts |-> holder'[g]]
           /\ \A g \in Hosts : g # h => holder'[g] = holder[g]
BY DEF Types, PassLock

(* A task of a host.                                                       *)
LEMMA HostType ==
    ASSUME Types, NEW t \in Tasks, pc[t] \in {"loading", "waiting", "sleeping", "fetching"}
    PROVE  site[t] \in Sites /\ Host(t) \in Hosts
BY PolitenessAssumption DEF Types, Host

(* Steps in which no clock moves and nobody falls asleep keep the          *)
(* invariant, if they leave the locks of those that sleep alone.           *)
LEMMA SpacedKeeps ==
    ASSUME SpacedInv, Types', UNCHANGED <<sinceHit, observed>>,
           \A t \in Tasks : pc'[t] = "sleeping" =>
               /\ pc[t] = "sleeping" /\ site'[t] = site[t] /\ sleep'[t] = sleep[t]
               /\ holder'[Host(t)] = holder[Host(t)]
    PROVE  SpacedInv'
<1>1. SleepsEnough'
  BY DEF SpacedInv, SleepsEnough, HasLock, Host
<1> QED BY <1>1 DEF SpacedInv, PagesSpaced

LEMMA AskSpaced ==
    ASSUME SpacedInv, NEW t \in Tasks, NEW s \in Sites, NEW priv \in BOOLEAN,
           Ask(t, s, priv) \/ AskRobots(t, s, priv)
    PROVE  SpacedInv'
<1>1. CASE Ask(t, s, priv)
  <2>1. HostOf[s] \in Hosts BY PolitenessAssumption
  <2>2. /\ holder' = [g \in Hosts |-> holder'[g]]
        /\ \A g \in Hosts : holder[g] # NoTask => holder'[g] = holder[g]
    BY <1>1, <2>1, JoinTakesFree DEF Ask, SpacedInv
  <2>3. Types' BY <1>1, <2>2 DEF Ask, SpacedInv, Types, Handle, GoTo
  <2>4. ASSUME NEW z \in Tasks, pc'[z] = "sleeping"
        PROVE  /\ pc[z] = "sleeping" /\ site'[z] = site[z] /\ sleep'[z] = sleep[z]
               /\ holder'[Host(z)] = holder[Host(z)]
    <3>1. z # t /\ pc[z] = "sleeping" /\ site'[z] = site[z] /\ sleep'[z] = sleep[z]
      BY <1>1, <2>4 DEF Ask, SpacedInv, Types, Handle, GoTo
    <3>2. holder[Host(z)] = z /\ Host(z) \in Hosts
      BY <3>1, HostType DEF SpacedInv, SleepsEnough, HasLock
    <3> QED BY <2>2, <3>1, <3>2, PolitenessAssumption
  <2> QED BY <1>1, <2>3, <2>4, SpacedKeeps DEF Ask
<1>2. CASE AskRobots(t, s, priv)
  <2>1. Types' BY <1>2 DEF AskRobots, SpacedInv, Types, Handle, GoTo
  <2>2. \A z \in Tasks : pc'[z] = "sleeping" =>
            pc[z] = "sleeping" /\ site'[z] = site[z] /\ sleep'[z] = sleep[z]
    BY <1>2 DEF AskRobots, SpacedInv, Types, Handle, GoTo
  <2> QED BY <1>2, <2>1, <2>2, SpacedKeeps DEF AskRobots
<1> QED BY <1>1, <1>2

LEMMA LoadSpaced ==
    ASSUME SpacedInv, NEW t \in Tasks, LoadRobots(t)
    PROVE  SpacedInv'
<1>1. pc[t] = "loading" /\ site[t] \in Sites /\ Host(t) \in Hosts
  BY HostType DEF LoadRobots, SpacedInv
<1>2. /\ holder' = [g \in Hosts |-> holder'[g]]
      /\ \A g \in Hosts : holder[g] # NoTask => holder'[g] = holder[g]
  <2>1. JoinLock(t, Host(t)) \/ UNCHANGED holder BY DEF LoadRobots
  <2>2. Types BY DEF SpacedInv
  <2> QED BY <1>1, <2>1, <2>2, JoinTakesFree DEF Types
<1>3. /\ parser' \in [Sites -> {"none", "rules", "all"}]
      /\ \/ pc' = [pc EXCEPT ![t] = "waiting"] /\ site' = site /\ private' = private
         \/ /\ pc' = [pc EXCEPT ![t] = "idle"] /\ site' = [site EXCEPT ![t] = NoSite]
            /\ private' = [private EXCEPT ![t] = FALSE]
  BY <1>1 DEF LoadRobots, SpacedInv, Types, Leave, Handle, GoTo
<1>4. Types' BY <1>1, <1>2, <1>3 DEF LoadRobots, SpacedInv, Types
<1>5. ASSUME NEW z \in Tasks, pc'[z] = "sleeping"
      PROVE  /\ pc[z] = "sleeping" /\ site'[z] = site[z] /\ sleep'[z] = sleep[z]
             /\ holder'[Host(z)] = holder[Host(z)]
  <2>1. z # t /\ pc[z] = "sleeping" /\ site'[z] = site[z] /\ sleep'[z] = sleep[z]
    BY <1>3, <1>5 DEF LoadRobots, SpacedInv, Types
  <2>2. holder[Host(z)] = z /\ Host(z) \in Hosts
    BY <2>1, HostType DEF SpacedInv, SleepsEnough, HasLock
  <2> QED BY <1>2, <2>1, <2>2, PolitenessAssumption
<1> QED BY <1>4, <1>5, SpacedKeeps DEF LoadRobots

(* A page is requested when the delay is over, by the task with the lock.  *)
LEMMA RequestSpaced ==
    ASSUME SpacedInv, NEW t \in Tasks, pc[t] \in {"waiting", "sleeping"},
           HasLock(t), sinceHit[Host(t)] >= Delay,
           RequestPage(t), UNCHANGED <<cacheVars, sleep>>
    PROVE  SpacedInv'
<1>1. Host(t) \in Hosts /\ site[t] \in Sites BY HostType DEF SpacedInv
<1>2. /\ holder' = [g \in Hosts |-> holder'[g]]
      /\ \A g \in Hosts : g # Host(t) => holder'[g] = holder[g]
  BY <1>1, PassMovesOne DEF RequestPage, SpacedInv
<1>3. pc' = [pc EXCEPT ![t] = "fetching"] /\ sinceHit' = [sinceHit EXCEPT ![Host(t)] = 0]
  BY DEF RequestPage, GoTo
<1>4. Types'
  BY <1>1, <1>2, <1>3, PolitenessAssumption DEF SpacedInv, Types
<1>5. PagesSpaced' /\ sinceHit' = sincePage'
  BY <1>1, <1>3, PolitenessAssumption
  DEF SpacedInv, Types, PagesSpaced, RequestPage, ObservePage
<1>6. SleepsEnough'
  <2> SUFFICES ASSUME NEW z \in Tasks, pc'[z] = "sleeping"
               PROVE  HasLock(z)' /\ sleep'[z] + sinceHit'[Host(z)'] >= Delay
    BY DEF SleepsEnough
  <2>1. z # t /\ pc[z] = "sleeping" /\ Host(z)' = Host(z)
    BY <1>3 DEF SpacedInv, Types, Host
  <2>2. holder[Host(z)] = z /\ Host(z) \in Hosts
    BY <2>1, HostType DEF SpacedInv, SleepsEnough, HasLock
  <2>3. Host(z) # Host(t) BY <2>1, <2>2 DEF HasLock
  <2> QED BY <1>2, <1>3, <2>1, <2>2, <2>3 DEF SpacedInv, SleepsEnough, HasLock, Types
<1> QED BY <1>4, <1>5, <1>6 DEF SpacedInv

LEMMA TaskSpaced ==
    ASSUME SpacedInv, NEW t \in Tasks, TaskStep(t)
    PROVE  SpacedInv'
<1>1. CASE LoadRobots(t) BY <1>1, LoadSpaced
<1>2. CASE Sleep(t)
  <2>1. Host(t) \in Hosts BY <1>2, HostType DEF SpacedInv, Sleep
  <2>2. sinceHit[Host(t)] \in 0..Delay BY <2>1 DEF SpacedInv, Types
  <2>3. Types'
    BY <1>2, <2>2, PolitenessAssumption DEF Sleep, SpacedInv, Types, GoTo
  <2>4. SleepsEnough'
    <3> SUFFICES ASSUME NEW z \in Tasks, pc'[z] = "sleeping"
                 PROVE  HasLock(z)' /\ sleep'[z] + sinceHit'[Host(z)'] >= Delay
      BY DEF SleepsEnough
    <3>1. CASE z = t
      BY <1>2, <2>2, <3>1, PolitenessAssumption
      DEF Sleep, SpacedInv, Types, HasLock, Host
    <3>2. CASE z # t
      BY <1>2, <3>2 DEF Sleep, SpacedInv, SleepsEnough, Types, HasLock, Host, GoTo
    <3> QED BY <3>1, <3>2
  <2> QED BY <1>2, <2>3, <2>4 DEF Sleep, SpacedInv, PagesSpaced
<1>3. CASE GoAhead(t) BY <1>3, RequestSpaced DEF GoAhead
<1>4. CASE Wake(t)
  <2>1. pc[t] = "sleeping" /\ sleep[t] = 0 BY <1>4 DEF Wake
  <2>2. HasLock(t) /\ sleep[t] + sinceHit[Host(t)] >= Delay
    BY <2>1 DEF SpacedInv, SleepsEnough
  <2>3. sinceHit[Host(t)] \in 0..Delay BY <2>1, HostType DEF SpacedInv, Types
  <2>4. sinceHit[Host(t)] >= Delay BY <2>1, <2>2, <2>3, PolitenessAssumption
  <2> QED BY <1>4, <2>1, <2>2, <2>4, RequestSpaced DEF Wake
<1>5. CASE Answer(t)
  <2>1. Types' BY <1>5 DEF Answer, Leave, Handle, GoTo, SpacedInv, Types
  <2>2. \A z \in Tasks : pc'[z] = "sleeping" =>
            pc[z] = "sleeping" /\ site'[z] = site[z] /\ sleep'[z] = sleep[z]
    BY <1>5 DEF Answer, Leave, Handle, GoTo, SpacedInv, Types
  <2> QED BY <1>5, <2>1, <2>2, SpacedKeeps DEF Answer
<1> QED BY <1>1, <1>2, <1>3, <1>4, <1>5 DEF TaskStep

LEMMA CancelSpaced ==
    ASSUME SpacedInv, NEW t \in Tasks, CancelTask(t)
    PROVE  SpacedInv'
<1>1. /\ pc' = [pc EXCEPT ![t] = "gone"] /\ site' = [site EXCEPT ![t] = NoSite]
      /\ private' = [private EXCEPT ![t] = FALSE] /\ sleep' = [sleep EXCEPT ![t] = 0]
  BY DEF CancelTask, Leave, Handle, GoTo
<1>2. /\ holder' = [g \in Hosts |-> holder'[g]]
      /\ \A g \in Hosts : holder[g] # t => holder'[g] = holder[g]
  <2>1. CASE pc[t] \in {"waiting", "sleeping"} /\ HasLock(t)
    <3>1. Host(t) \in Hosts BY <2>1, HostType DEF SpacedInv
    <3>2. PassLock(Host(t)) BY <2>1 DEF CancelTask
    <3> QED BY <2>1, <3>1, <3>2, PassMovesOne DEF SpacedInv, HasLock
  <2>2. CASE ~(pc[t] \in {"waiting", "sleeping"} /\ HasLock(t))
    BY <2>2 DEF CancelTask, SpacedInv, Types
  <2> QED BY <2>1, <2>2
<1>3. Types'
  BY <1>1, <1>2, PolitenessAssumption DEF CancelTask, SpacedInv, Types
<1>4. SleepsEnough'
  <2> SUFFICES ASSUME NEW z \in Tasks, pc'[z] = "sleeping"
               PROVE  HasLock(z)' /\ sleep'[z] + sinceHit'[Host(z)'] >= Delay
    BY DEF SleepsEnough
  <2>1. /\ z # t /\ pc[z] = "sleeping" /\ Host(z)' = Host(z)
        /\ sleep'[z] = sleep[z] /\ sinceHit' = sinceHit
    BY <1>1 DEF SpacedInv, Types, Host, CancelTask
  <2>2. holder[Host(z)] = z /\ Host(z) \in Hosts
    BY <2>1, HostType DEF SpacedInv, SleepsEnough, HasLock
  <2> QED BY <1>2, <2>1, <2>2 DEF SpacedInv, SleepsEnough, HasLock
<1> QED BY <1>3, <1>4 DEF SpacedInv, PagesSpaced, CancelTask

(* A tick takes from the sleep of a task what it adds to the clock.        *)
LEMMA TickSpaced ==
    ASSUME SpacedInv, Tick
    PROVE  SpacedInv'
<1>1. \A n \in 0..Delay : Older(n) \in 0..Delay
  BY PolitenessAssumption DEF Older
<1>2. \A h \in Hosts : sinceHit'[h] = Older(sinceHit[h]) /\ sinceHit[h] \in 0..Delay
  BY DEF Tick, SpacedInv, Types
<1>3. \A t \in Tasks : sleep[t] \in 0..Delay
                        /\ sleep'[t] = IF sleep[t] > 0 THEN sleep[t] - 1 ELSE 0
  BY DEF Tick, SpacedInv, Types
<1>4. sinceHit' \in [Hosts -> 0..Delay] /\ sinceHit' = sincePage'
  BY <1>1, <1>2 DEF Tick, SpacedInv
<1>5. sleep' \in [Tasks -> 0..Delay]
  BY <1>3, PolitenessAssumption DEF Tick
<1>6. Types' BY <1>4, <1>5 DEF Tick, SpacedInv, Types
<1>7. SleepsEnough'
  <2> SUFFICES ASSUME NEW t \in Tasks, pc[t] = "sleeping"
               PROVE  HasLock(t) /\ sleep'[t] + sinceHit'[Host(t)] >= Delay
    BY DEF SleepsEnough, Tick, HasLock, Host
  <2>1. HasLock(t) /\ sleep[t] + sinceHit[Host(t)] >= Delay /\ Host(t) \in Hosts
    BY HostType DEF SpacedInv, SleepsEnough
  <2> QED BY <1>2, <1>3, <2>1, PolitenessAssumption DEF Older
<1> QED BY <1>4, <1>6, <1>7 DEF Tick, SpacedInv, PagesSpaced

LEMMA NextSpaced == SpacedInv /\ [Next]_vars => SpacedInv'
<1> SUFFICES ASSUME SpacedInv, [Next]_vars PROVE SpacedInv' OBVIOUS
<1>1. ASSUME NEW t \in Tasks, NEW s \in Sites, NEW priv \in BOOLEAN,
             Ask(t, s, priv) \/ AskRobots(t, s, priv)
      PROVE  SpacedInv'
  BY <1>1, AskSpaced
<1>2. ASSUME NEW t \in Tasks, TaskStep(t) PROVE SpacedInv' BY <1>2, TaskSpaced
<1>3. ASSUME NEW t \in Tasks, CancelTask(t) PROVE SpacedInv' BY <1>3, CancelSpaced
<1>4. CASE Tick BY <1>4, TickSpaced
<1>5. CASE UNCHANGED vars
  BY <1>5 DEF vars, SpacedInv, Types, PagesSpaced, SleepsEnough, HasLock, Host
<1> QED BY <1>1, <1>2, <1>3, <1>4, <1>5 DEF Next

(* Two requests for pages of one host are never closer than the delay,     *)
(* for any number of tasks that share the Fetcher, with robots.txt loading *)
(* and cancellations at any time.                                          *)
THEOREM Spacing == Spec => []PagesSpaced
<1>1. SpacedInv => PagesSpaced BY DEF SpacedInv
<1> QED BY <1>1, InitSpaced, NextSpaced, PTL DEF Spec

-----------------------------------------------------------------------------
(* The rules of robots.txt.                                                *)

(* The cache allows all of a guarded site only if its file once failed to  *)
(* load.                                                                   *)
CacheHonest ==
    \A s \in Guarded : Obey /\ parser[s] = "all" => s \in unread
GuardInv == Types /\ CacheHonest /\ GuardRespected

LEMMA NextGuarded == SpacedInv /\ GuardInv /\ [Next]_vars => GuardInv'
<1> SUFFICES ASSUME SpacedInv, GuardInv, [Next]_vars PROVE GuardInv' OBVIOUS
<1>t. Types' BY NextSpaced DEF SpacedInv
<1>1. ASSUME NEW t \in Tasks, NEW s \in Sites, NEW priv \in BOOLEAN, Ask(t, s, priv)
      PROVE  GuardInv'
  <2>1. CacheHonest' BY <1>1 DEF Ask, GuardInv, CacheHonest
  <2>2. GuardRespected'
    BY <1>1 DEF Ask, Handle, GoTo, Allowed, GuardInv, Types, CacheHonest, GuardRespected
  <2> QED BY <1>t, <2>1, <2>2 DEF GuardInv
<1>2. ASSUME NEW t \in Tasks, NEW s \in Sites, NEW priv \in BOOLEAN, AskRobots(t, s, priv)
      PROVE  GuardInv'
  <2>1. CacheHonest' BY <1>2 DEF AskRobots, GuardInv, CacheHonest
  <2>2. GuardRespected'
    BY <1>2 DEF AskRobots, Handle, GoTo, GuardInv, Types, GuardRespected
  <2> QED BY <1>t, <2>1, <2>2 DEF GuardInv
<1>3. ASSUME NEW t \in Tasks, LoadRobots(t) PROVE GuardInv'
  <2>1. site[t] \in Sites BY <1>3 DEF LoadRobots, GuardInv, Types
  <2>2. PICK ok \in BOOLEAN :
          LET p == IF ok /\ site[t] \in Guarded THEN "rules" ELSE "all"
          IN  /\ parser' = [parser EXCEPT ![site[t]] = p]
              /\ unread' = IF ok THEN unread ELSE unread \cup {site[t]}
              /\ IF Allowed(p, private[t])
                 THEN /\ JoinLock(t, Host(t)) /\ GoTo(t, "waiting")
                      /\ UNCHANGED <<site, private>>
                 ELSE Leave(t, "idle") /\ UNCHANGED lockVars
    BY <1>3 DEF LoadRobots
  <2>3. CacheHonest'
    BY <2>1, <2>2, PolitenessAssumption DEF GuardInv, Types, CacheHonest
  <2>4. unread \subseteq unread' BY <2>2
  <2>5. \A z \in Tasks \ {t} : pc'[z] = pc[z] /\ site'[z] = site[z] /\ private'[z] = private[z]
    BY <2>2 DEF GuardInv, Types, GoTo, Leave, Handle
  <2>6. pc'[t] \in {"waiting", "sleeping", "fetching"} /\ private'[t] /\ site'[t] \in Guarded
        => site'[t] \in unread'
    BY <2>1, <2>2 DEF GuardInv, Types, GoTo, Leave, Handle, Allowed
  <2>7. GuardRespected' BY <2>4, <2>5, <2>6 DEF GuardInv, GuardRespected
  <2> QED BY <1>t, <2>3, <2>7 DEF GuardInv
<1>4. ASSUME NEW t \in Tasks, Sleep(t) \/ GoAhead(t) \/ Wake(t) \/ Answer(t) \/ CancelTask(t)
      PROVE  GuardInv'
  <2>1. UNCHANGED <<parser, unread>>
    BY <1>4 DEF Sleep, GoAhead, Wake, Answer, CancelTask
  <2>2. \A z \in Tasks :
          pc'[z] \in {"waiting", "sleeping", "fetching"} =>
            /\ pc[z] \in {"waiting", "sleeping", "fetching"}
            /\ site'[z] = site[z] /\ private'[z] = private[z]
    BY <1>4
    DEF Sleep, GoAhead, Wake, Answer, CancelTask, RequestPage, Leave, Handle, GoTo,
        GuardInv, Types
  <2>3. CacheHonest' BY <2>1 DEF GuardInv, CacheHonest
  <2>4. GuardRespected' BY <2>1, <2>2 DEF GuardInv, GuardRespected
  <2> QED BY <1>t, <2>3, <2>4 DEF GuardInv
<1>5. CASE Tick \/ UNCHANGED vars
  BY <1>t, <1>5 DEF Tick, vars, GuardInv, CacheHonest, GuardRespected
<1> QED BY <1>1, <1>2, <1>3, <1>4, <1>5 DEF Next, TaskStep

(* No page that a robots.txt keeps crawlers off is requested, unless that  *)
(* file could not be loaded, however the loads of several tasks overlap.   *)
THEOREM RulesObeyed == Spec => []GuardRespected
<1>1. Init => GuardInv
  BY InitSpaced, PolitenessAssumption
  DEF Init, GuardInv, SpacedInv, CacheHonest, GuardRespected
<1>2. GuardInv => GuardRespected BY DEF GuardInv
<1> QED BY <1>1, <1>2, InitSpaced, NextSpaced, NextGuarded, PTL DEF Spec

-----------------------------------------------------------------------------
(* The queue of a lock.                                                    *)

(* Who joins a queue is the one that is added to it.                       *)
LEMMA Joined ==
    ASSUME NEW S, NEW q \in Seq(S), NEW t \in S, t \notin Range(q), IsInjective(q)
    PROVE  /\ Append(q, t) \in Seq(S)
           /\ Range(Append(q, t)) = Range(q) \cup {t}
           /\ IsInjective(Append(q, t))
<1> DEFINE r == Append(q, t)
<1>1. /\ r \in Seq(S) /\ Len(r) = Len(q) + 1 /\ Len(q) \in Nat
      /\ \A i \in 1..Len(q) : r[i] = q[i]
      /\ r[Len(q) + 1] = t
  BY AppendProperties, LenProperties
<1>2. DOMAIN q = 1..Len(q) /\ DOMAIN r = 1..Len(q) + 1 BY <1>1, LenProperties
<1> HIDE DEF r
<1>3. Range(r) = Range(q) \cup {t} BY <1>1, <1>2 DEF Range
<1>4. IsInjective(r) BY <1>1, <1>2 DEF Range, IsInjective
<1> QED BY <1>1, <1>3, <1>4 DEF r

(* The first of a queue is the one that leaves it.                         *)
LEMMA FirstLeft ==
    ASSUME NEW S, NEW q \in Seq(S), q # <<>>, IsInjective(q)
    PROVE  /\ Head(q) \in S /\ Tail(q) \in Seq(S)
           /\ Head(q) \in Range(q)
           /\ Range(Tail(q)) = Range(q) \ {Head(q)}
           /\ IsInjective(Tail(q))
<1> DEFINE r == Tail(q)
<1>1. /\ Head(q) \in S /\ r \in Seq(S) /\ Len(r) = Len(q) - 1
      /\ \A i \in 1..Len(r) : r[i] = q[i + 1]
  BY HeadTailProperties
<1>2. Len(q) \in Nat /\ Len(q) # 0 /\ Head(q) = q[1] BY EmptySeq, LenProperties
<1>3. DOMAIN q = 1..Len(q) /\ DOMAIN r = 1..Len(q) - 1 BY <1>1, LenProperties
<1> HIDE DEF r
<1>4. \A i \in DOMAIN r : i + 1 \in DOMAIN q /\ i + 1 # 1 /\ r[i] = q[i + 1]
  BY <1>1, <1>2, <1>3
<1>5. \A k \in DOMAIN q : k # 1 => k - 1 \in DOMAIN r /\ r[k - 1] = q[k]
  BY <1>1, <1>2, <1>3
<1>6. 1 \in DOMAIN q BY <1>2, <1>3
<1>7. Range(r) = Range(q) \ {q[1]}
  <2>1. ASSUME NEW x \in Range(r) PROVE x \in Range(q) \ {q[1]}
    <3>1. PICK i \in DOMAIN r : x = r[i] BY DEF Range
    <3> QED BY <1>4, <1>6, <3>1 DEF Range, IsInjective
  <2>2. ASSUME NEW x \in Range(q) \ {q[1]} PROVE x \in Range(r)
    <3>1. PICK k \in DOMAIN q : x = q[k] BY DEF Range
    <3> QED BY <1>5, <3>1 DEF Range
  <2> QED BY <2>1, <2>2
<1>8. IsInjective(r)
  <2> SUFFICES ASSUME NEW i \in DOMAIN r, NEW j \in DOMAIN r, r[i] = r[j] PROVE i = j
    BY DEF IsInjective
  <2>1. i + 1 = j + 1 BY <1>4 DEF IsInjective
  <2> QED BY <1>1, <1>2, <1>3, <2>1
<1> QED BY <1>1, <1>2, <1>6, <1>7, <1>8 DEF r, Range

(* Who is taken out of a queue is the only one that leaves it.             *)
LEMMA TakenOut ==
    ASSUME NEW S, NEW q \in Seq(S), NEW t, IsInjective(q)
    PROVE  /\ RemoveFirst(q, t) \in Seq(S)
           /\ Range(RemoveFirst(q, t)) = Range(q) \ {t}
           /\ IsInjective(RemoveFirst(q, t))
<1>0. Len(q) \in Nat /\ DOMAIN q = 1..Len(q) /\ \A i \in 1..Len(q) : q[i] \in S
  BY LenProperties
<1>1. CASE \A i \in 1..Len(q) : q[i] # t
  <2>1. RemoveFirst(q, t) = q BY <1>1 DEF RemoveFirst
  <2>2. t \notin Range(q) BY <1>0, <1>1 DEF Range
  <2> QED BY <2>1, <2>2
<1>2. CASE \E i \in 1..Len(q) : q[i] = t
  <2>1. PICK k \in 1..Len(q) : q[k] = t BY <1>2
  <2>2. {i \in 1..Len(q) : q[i] = t} = {k} BY <1>0, <2>1 DEF IsInjective
  <2>3. SelectInSeq(q, LAMBDA v : v = t) = k
    BY <2>2, <1>0 DEF SelectInSeq, Min
  <2> DEFINE a == SubSeq(q, 1, k - 1)
             b == SubSeq(q, k + 1, Len(q))
             r == a \o b
  <2>4. RemoveFirst(q, t) = r BY <1>2, <2>3 DEF RemoveFirst, RemoveAt
  <2>5. /\ a \in Seq(S) /\ Len(a) = k - 1 /\ \A i \in 1..k - 1 : a[i] = q[i]
    BY <1>0, SubSeqProperties, SMTT(30)
  <2>6. b \in Seq(S) /\ Len(b) = Len(q) - k /\ \A i \in 1..Len(q) - k : b[i] = q[k + i]
    <3>1. k + 1 \in Int /\ Len(q) \in Int /\ \A i \in k + 1..Len(q) : q[i] \in S BY <1>0
    <3>2. /\ b \in Seq(S)
          /\ Len(b) = IF k + 1 <= Len(q) THEN Len(q) - (k + 1) + 1 ELSE 0
          /\ \A i \in 1..Len(q) - (k + 1) + 1 : b[i] = q[k + 1 + i - 1]
      BY <3>1, SubSeqProperties
    <3> HIDE DEF b
    <3>3. /\ k \in Int /\ Len(q) \in Int /\ k <= Len(q)
          /\ Len(q) - (k + 1) + 1 = Len(q) - k
      BY <1>0
    <3>4. Len(b) = Len(q) - k
      <4> DEFINE n == Len(q)
                 c == Len(b)
      <4>1. c = IF k + 1 <= n THEN n - (k + 1) + 1 ELSE 0 BY <3>2
      <4>2. k \in Int /\ n \in Int /\ k <= n BY <3>3
      <4> HIDE DEF n, c
      <4>3. c = n - k BY <4>1, <4>2
      <4> QED BY <4>3 DEF n, c
    <3>5. \A i \in 1..Len(q) - k : b[i] = q[k + i]
      <4> SUFFICES ASSUME NEW i \in 1..Len(q) - k PROVE b[i] = q[k + i] OBVIOUS
      <4>1. b[i] = q[k + 1 + i - 1] BY <3>2, <3>3
      <4>2. i \in Int /\ k \in Int BY <3>3
      <4>3. k + 1 + i - 1 = k + i BY ONLY <4>2
      <4> QED BY <4>1, <4>3
    <3> QED BY <3>2, <3>4, <3>5
  <2> HIDE DEF a, b
  <2>7. r \in Seq(S) /\ DOMAIN r = 1..Len(q) - 1
    <3>1. r \in Seq(S) /\ Len(r) = Len(a) + Len(b) BY <2>5, <2>6, ConcatProperties
    <3>2. DOMAIN r = 1..Len(r) BY <3>1, LenProperties
    <3> QED BY <1>0, <2>5, <2>6, <3>1, <3>2
  <2>8. \A i \in 1..Len(q) - 1 : r[i] = IF i < k THEN q[i] ELSE q[i + 1]
    <3> SUFFICES ASSUME NEW i \in 1..Len(q) - 1
                 PROVE  r[i] = IF i < k THEN q[i] ELSE q[i + 1]
      OBVIOUS
    <3>1. CASE i < k
      <4>1. r[i] = a[i] BY <1>0, <2>5, <2>6, <3>1
      <4> QED BY <1>0, <2>5, <3>1, <4>1
    <3>2. CASE i >= k
      <4>1. i - (k - 1) \in 1..Len(q) - k BY <1>0, <3>2
      <4>2. r[i] = b[i - (k - 1)] BY <1>0, <2>5, <2>6, <3>2
      <4>3. k + (i - (k - 1)) = i + 1 BY <1>0
      <4> QED BY <1>0, <2>6, <3>2, <4>1, <4>2, <4>3
    <3>3. i \in Int /\ k \in Int BY <1>0
    <3> HIDE DEF r
    <3> QED BY <3>1, <3>2, <3>3
  <2> HIDE DEF r
  <2>9. \A i \in DOMAIN r : \E j \in DOMAIN q : j # k /\ r[i] = q[j] /\ j = IF i < k THEN i ELSE i + 1
    BY <1>0, <2>7, <2>8
  <2>10. \A j \in DOMAIN q : j # k => \E i \in DOMAIN r : r[i] = q[j]
    <3> SUFFICES ASSUME NEW j \in DOMAIN q, j # k PROVE \E i \in DOMAIN r : r[i] = q[j]
      OBVIOUS
    <3>1. CASE j < k BY <1>0, <2>7, <2>8, <3>1
    <3>2. CASE j > k
      <4>1. j - 1 \in DOMAIN r /\ r[j - 1] = q[j] BY <1>0, <2>7, <2>8, <3>2
      <4> QED BY <4>1
    <3> QED BY <1>0, <3>1, <3>2
  <2>11. Range(r) = Range(q) \ {t}
    <3>1. ASSUME NEW x \in Range(r) PROVE x \in Range(q) \ {t}
      BY <1>0, <2>1, <2>9 DEF Range, IsInjective
    <3>2. ASSUME NEW x \in Range(q) \ {t} PROVE x \in Range(r)
      BY <2>1, <2>10 DEF Range
    <3> QED BY <3>1, <3>2
  <2>12. IsInjective(r)
    <3> SUFFICES ASSUME NEW i \in DOMAIN r, NEW j \in DOMAIN r, r[i] = r[j] PROVE i = j
      BY DEF IsInjective
    <3>1. (IF i < k THEN i ELSE i + 1) = (IF j < k THEN j ELSE j + 1)
      BY <2>9 DEF IsInjective
    <3> QED BY <1>0, <2>7, <3>1
  <2> QED BY <2>4, <2>7, <2>11, <2>12
<1> QED BY <1>1, <1>2

-----------------------------------------------------------------------------
(* The locks of the hosts.                                                 *)

(* The tasks about to request a page of a host.                            *)
Here(h) == {t \in Tasks : pc[t] \in {"waiting", "sleeping"} /\ Host(t) = h}

LockAt(h) ==
    IF holder[h] = NoTask THEN Here(h) = {} /\ waiters[h] = <<>>
    ELSE /\ Here(h) = {holder[h]} \cup Range(waiters[h])
         /\ holder[h] \notin Range(waiters[h]) /\ IsInjective(waiters[h])

LockInv ==
    /\ holder \in [Hosts -> Tasks \cup {NoTask}]
    /\ waiters \in [Hosts -> Seq(Tasks)]
    /\ \A h \in Hosts : LockAt(h)

(* Steps that neither move a task to or from a host nor touch the locks.   *)
LEMMA LockStays ==
    ASSUME LockInv, UNCHANGED lockVars, \A g \in Hosts : Here(g)' = Here(g)
    PROVE  LockInv'
BY DEF LockInv, LockAt

(* A task comes to a host: it gets the lock or the end of the queue.       *)
LEMMA LockJoined ==
    ASSUME LockInv, NEW t \in Tasks, NEW h \in Hosts, JoinLock(t, h),
           t \notin Here(h), Here(h)' = Here(h) \cup {t},
           \A g \in Hosts \ {h} : Here(g)' = Here(g)
    PROVE  LockInv'
<1>1. \A g \in Hosts \ {h} : LockAt(g)' BY DEF LockInv, LockAt, JoinLock
<1>2. CASE holder[h] = NoTask
  <2>1. holder' = [holder EXCEPT ![h] = t] /\ waiters' = waiters BY <1>2 DEF JoinLock
  <2>2. LockAt(h) /\ Here(h) = {} /\ waiters[h] = <<>> BY <1>2 DEF LockInv, LockAt
  <2>3. Range(<<>>) = {} /\ IsInjective(<<>>) BY DEF Range, IsInjective
  <2>4. LockAt(h)' BY <2>1, <2>2, <2>3, PolitenessAssumption DEF LockInv, LockAt
  <2> QED BY <1>1, <2>1, <2>4 DEF LockInv
<1>3. CASE holder[h] # NoTask
  <2> DEFINE q == waiters[h]
  <2>1. holder' = holder /\ waiters' = [waiters EXCEPT ![h] = Append(q, t)]
    BY <1>3 DEF JoinLock
  <2>2. Here(h) = {holder[h]} \cup Range(q) /\ holder[h] \notin Range(q) /\ IsInjective(q)
    BY <1>3 DEF LockInv, LockAt
  <2>3. q \in Seq(Tasks) /\ t \notin Range(q) /\ t # holder[h] BY <2>2 DEF LockInv
  <2>4. /\ Append(q, t) \in Seq(Tasks)
        /\ Range(Append(q, t)) = Range(q) \cup {t}
        /\ IsInjective(Append(q, t))
    BY <2>2, <2>3, Joined
  <2>5. waiters'[h] = Append(q, t) /\ waiters' \in [Hosts -> Seq(Tasks)]
    BY <2>1, <2>4 DEF LockInv
  <2> HIDE DEF q
  <2>6. LockAt(h)' BY <1>3, <2>1, <2>2, <2>3, <2>4, <2>5 DEF LockAt
  <2> QED BY <1>1, <2>1, <2>5, <2>6 DEF LockInv
<1> QED BY <1>2, <1>3

(* The one with the lock goes: the first of the queue gets it.             *)
LEMMA LockPassed ==
    ASSUME LockInv, NEW t \in Tasks, NEW h \in Hosts, PassLock(h), holder[h] = t,
           Here(h)' = Here(h) \ {t}, \A g \in Hosts \ {h} : Here(g)' = Here(g)
    PROVE  LockInv'
<1> DEFINE q == waiters[h]
<1>1. \A g \in Hosts \ {h} : LockAt(g)' BY DEF LockInv, LockAt, PassLock
<1>2. /\ q \in Seq(Tasks) /\ Here(h) = {t} \cup Range(q)
      /\ t \notin Range(q) /\ IsInjective(q)
  BY PolitenessAssumption DEF LockInv, LockAt
<1>3. CASE q = <<>>
  <2>1. holder' = [holder EXCEPT ![h] = NoTask] /\ waiters' = waiters BY <1>3 DEF PassLock
  <2>2. Range(<<>>) = {} BY DEF Range
  <2>3. LockAt(h)' BY <1>2, <1>3, <2>1, <2>2 DEF LockInv, LockAt
  <2> QED BY <1>1, <2>1, <2>3 DEF LockInv
<1>4. CASE q # <<>>
  <2>1. /\ holder' = [holder EXCEPT ![h] = Head(q)]
        /\ waiters' = [waiters EXCEPT ![h] = Tail(q)]
    BY <1>4 DEF PassLock
  <2>2. /\ Head(q) \in Tasks /\ Tail(q) \in Seq(Tasks)
        /\ Head(q) \in Range(q)
        /\ Range(Tail(q)) = Range(q) \ {Head(q)}
        /\ IsInjective(Tail(q))
    BY <1>2, <1>4, FirstLeft
  <2>3. /\ waiters'[h] = Tail(q) /\ holder'[h] = Head(q) /\ Head(q) # NoTask
        /\ waiters' \in [Hosts -> Seq(Tasks)] /\ holder' \in [Hosts -> Tasks \cup {NoTask}]
    BY <2>1, <2>2, PolitenessAssumption DEF LockInv
  <2> HIDE DEF q
  <2>4. LockAt(h)' BY <1>2, <2>2, <2>3 DEF LockAt
  <2> QED BY <1>1, <2>3, <2>4 DEF LockInv
<1> QED BY <1>3, <1>4

(* One without a lock goes.                                                *)
LEMMA LockLeft ==
    ASSUME LockInv, NEW t \in Tasks, \A g \in Hosts : holder[g] # t,
           waiters' = [g \in Hosts |-> RemoveFirst(waiters[g], t)], UNCHANGED holder,
           \A g \in Hosts : Here(g)' = Here(g) \ {t}
    PROVE  LockInv'
<1>1. \A g \in Hosts : waiters[g] \in Seq(Tasks) BY DEF LockInv
<1>2. ASSUME NEW g \in Hosts
      PROVE  RemoveFirst(waiters[g], t) \in Seq(Tasks) /\ LockAt(g)'
  <2> DEFINE q == waiters[g]
  <2>1. /\ LockAt(g) /\ q \in Seq(Tasks) /\ IsInjective(q) BY DEF LockInv, LockAt, IsInjective
  <2>2. /\ RemoveFirst(q, t) \in Seq(Tasks)
        /\ Range(RemoveFirst(q, t)) = Range(q) \ {t}
        /\ IsInjective(RemoveFirst(q, t))
    BY <2>1, TakenOut
  <2>3. waiters'[g] = RemoveFirst(q, t) /\ holder'[g] = holder[g] OBVIOUS
  <2>4. CASE holder[g] = NoTask
    <3>1. RemoveFirst(<<>>, t) = <<>> BY DEF RemoveFirst
    <3> QED BY <2>1, <2>2, <2>3, <2>4, <3>1 DEF LockAt
  <2>5. CASE holder[g] # NoTask
    <3> HIDE DEF q
    <3>1. Here(g) = {holder[g]} \cup Range(q) /\ holder[g] \notin Range(q)
      BY <2>1, <2>5 DEF LockAt, q
    <3>2. holder[g] # t /\ Here(g)' = Here(g) \ {t} OBVIOUS
    <3> QED BY <2>2, <2>3, <2>5, <3>1, <3>2 DEF LockAt
  <2> QED BY <2>4, <2>5
<1> QED BY <1>2 DEF LockInv

LEMMA InitLock == Init => LockInv
<1> SUFFICES ASSUME Init PROVE LockInv OBVIOUS
<1>1. <<>> \in Seq(Tasks) BY EmptySeq
<1> QED BY <1>1 DEF Init, LockInv, LockAt, Here

LEMMA NextLock == SpacedInv /\ LockInv /\ [Next]_vars => LockInv'
<1> SUFFICES ASSUME SpacedInv, LockInv, [Next]_vars PROVE LockInv' OBVIOUS
<1>0. Types /\ SleepsEnough BY DEF SpacedInv
<1>1. ASSUME NEW t \in Tasks, NEW s \in Sites, NEW priv \in BOOLEAN, Ask(t, s, priv)
      PROVE  LockInv'
  <2>1. HostOf[s] \in Hosts /\ JoinLock(t, HostOf[s]) BY <1>1, PolitenessAssumption DEF Ask
  <2>2. /\ pc' = [pc EXCEPT ![t] = "waiting"] /\ site' = [site EXCEPT ![t] = s]
        /\ pc[t] = "idle"
    BY <1>1 DEF Ask, Handle, GoTo
  <2>3. t \notin Here(HostOf[s]) BY <2>2 DEF Here
  <2>4. Here(HostOf[s])' = Here(HostOf[s]) \cup {t} BY <1>0, <2>2 DEF Here, Types, Host
  <2>5. \A g \in Hosts \ {HostOf[s]} : Here(g)' = Here(g) BY <1>0, <2>2 DEF Here, Types, Host
  <2> QED BY <2>1, <2>3, <2>4, <2>5, LockJoined
<1>2. ASSUME NEW t \in Tasks, NEW s \in Sites, NEW priv \in BOOLEAN, AskRobots(t, s, priv)
      PROVE  LockInv'
  <2>1. \A g \in Hosts : Here(g)' = Here(g)
    BY <1>0, <1>2 DEF AskRobots, Handle, GoTo, Here, Types, Host
  <2> QED BY <1>2, <2>1, LockStays DEF AskRobots
<1>3. ASSUME NEW t \in Tasks, LoadRobots(t) PROVE LockInv'
  <2>1. /\ pc[t] = "loading" /\ Host(t) \in Hosts
        /\ \/ /\ JoinLock(t, Host(t)) /\ pc' = [pc EXCEPT ![t] = "waiting"] /\ site' = site
           \/ /\ UNCHANGED lockVars /\ pc' = [pc EXCEPT ![t] = "idle"]
              /\ site' = [site EXCEPT ![t] = NoSite]
    BY <1>0, <1>3, HostType DEF LoadRobots, Leave, Handle, GoTo
  <2>2. CASE JoinLock(t, Host(t)) /\ pc' = [pc EXCEPT ![t] = "waiting"] /\ site' = site
    <3>1. t \notin Here(Host(t)) BY <2>1 DEF Here
    <3>2. /\ \A g \in Hosts : g # Host(t) => Here(g)' = Here(g)
          /\ \A g \in Hosts : g = Host(t) => Here(g)' = Here(g) \cup {t}
      BY <1>0, <2>1, <2>2 DEF Here, Types, Host
    <3>h. PICK h \in Hosts : h = Host(t) BY <2>1
    <3> QED BY <2>2, <3>1, <3>2, <3>h, LockJoined
  <2>3. CASE UNCHANGED lockVars /\ pc' = [pc EXCEPT ![t] = "idle"]
             /\ site' = [site EXCEPT ![t] = NoSite]
    <3>1. \A g \in Hosts : Here(g)' = Here(g) BY <1>0, <2>1, <2>3 DEF Here, Types, Host
    <3> QED BY <2>3, <3>1, LockStays
  <2> QED BY <2>1, <2>2, <2>3
<1>4. ASSUME NEW t \in Tasks, Sleep(t) PROVE LockInv'
  <2>1. \A g \in Hosts : Here(g)' = Here(g)
    BY <1>0, <1>4 DEF Sleep, GoTo, Here, Types, Host, cacheVars
  <2> QED BY <1>4, <2>1, LockStays DEF Sleep
<1>5. ASSUME NEW t \in Tasks, pc[t] \in {"waiting", "sleeping"}, HasLock(t),
             PassLock(Host(t)), pc'[t] \notin {"waiting", "sleeping"},
             \A z \in Tasks \ {t} : pc'[z] = pc[z] /\ site'[z] = site[z]
      PROVE  LockInv'
  <2>1. PICK h \in Hosts : h = Host(t) BY <1>0, <1>5, HostType
  <2>2. holder[h] = t /\ PassLock(h) BY <1>5, <2>1 DEF HasLock
  <2>3. Here(h)' = Here(h) \ {t} BY <1>5, <2>1 DEF Here, Host
  <2>4. \A g \in Hosts \ {h} : Here(g)' = Here(g) BY <1>5, <2>1 DEF Here, Host
  <2> QED BY <2>2, <2>3, <2>4, LockPassed
<1>6. ASSUME NEW t \in Tasks, GoAhead(t) \/ Wake(t) PROVE LockInv'
  <2>1. pc[t] \in {"waiting", "sleeping"} /\ RequestPage(t) /\ UNCHANGED site
    BY <1>6 DEF GoAhead, Wake
  <2>2. HasLock(t) BY <1>0, <1>6 DEF GoAhead, Wake, SleepsEnough
  <2>3. /\ PassLock(Host(t)) /\ pc'[t] \notin {"waiting", "sleeping"}
        /\ \A z \in Tasks \ {t} : pc'[z] = pc[z] /\ site'[z] = site[z]
    BY <1>0, <2>1 DEF RequestPage, GoTo, Types
  <2> QED BY <1>5, <2>1, <2>2, <2>3
<1>7. ASSUME NEW t \in Tasks, Answer(t) PROVE LockInv'
  <2>1. \A g \in Hosts : Here(g)' = Here(g)
    BY <1>0, <1>7 DEF Answer, Leave, Handle, GoTo, Here, Types, Host
  <2> QED BY <1>7, <2>1, LockStays DEF Answer
<1>8. ASSUME NEW t \in Tasks, CancelTask(t) PROVE LockInv'
  <2>1. /\ pc'[t] \notin {"waiting", "sleeping"}
        /\ \A z \in Tasks \ {t} : pc'[z] = pc[z] /\ site'[z] = site[z]
    BY <1>0, <1>8 DEF CancelTask, Leave, Handle, GoTo, Types
  <2>2. CASE pc[t] \in {"waiting", "sleeping"} /\ HasLock(t)
    BY <1>5, <1>8, <2>1, <2>2 DEF CancelTask
  <2>3. CASE ~(pc[t] \in {"waiting", "sleeping"} /\ HasLock(t))
    <3>1. waiters' = [g \in Hosts |-> RemoveFirst(waiters[g], t)] /\ UNCHANGED holder
      BY <1>8, <2>3 DEF CancelTask
    <3>2. \A g \in Hosts : holder[g] # t
      <4>1. ASSUME NEW g \in Hosts, holder[g] = t PROVE FALSE
        <5>1. t \in Here(g) BY <4>1, PolitenessAssumption DEF LockInv, LockAt
        <5> QED BY <2>3, <4>1, <5>1 DEF Here, HasLock
      <4> QED BY <4>1
    <3>3. \A g \in Hosts : Here(g)' = Here(g) \ {t} BY <2>1 DEF Here, Host
    <3> QED BY <3>1, <3>2, <3>3, LockLeft
  <2> QED BY <2>2, <2>3
<1>9. CASE Tick \/ UNCHANGED vars
  <2>1. UNCHANGED lockVars /\ UNCHANGED <<pc, site>> BY <1>9 DEF Tick, vars
  <2>2. \A g \in Hosts : Here(g)' = Here(g) BY <2>1 DEF Here, Host
  <2> QED BY <2>1, <2>2, LockStays
<1> QED BY <1>1, <1>2, <1>3, <1>4, <1>6, <1>7, <1>8, <1>9 DEF Next, TaskStep

(* The lock of a host is with one of the tasks that are about to request a *)
(* page from it and all the others queue for it once, for any number of    *)
(* tasks and hosts and wherever tasks are cancelled: nobody waits for a    *)
(* lock that no task will pass on.                                         *)
THEOREM LocksSound == Spec => []LockSound
<1>1. LockInv => LockSound BY DEF LockInv, LockAt, Here, LockSound
<1> QED BY <1>1, InitSpaced, NextSpaced, InitLock, NextLock, PTL DEF Spec

=============================================================================
