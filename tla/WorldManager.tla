----------------------------- MODULE WorldManager -----------------------------
(***************************************************************************)
(* The world manager (crates/fc-net/src/world_manager.rs): the map from    *)
(* accounts to world threads, the threads' lives from spawn to final save, *)
(* and the three calls a connection thread makes - join_account,           *)
(* enter_central and return_home - which carry settlers through the Tunnel *)
(* in messages between the threads.                                        *)
(*                                                                         *)
(* A world is abstracted to the settlers living in it.  A call's steps are *)
(* its lock acquisitions, its sends and its waits; a world thread's steps  *)
(* are one message each.  All replies go to the one call a connection      *)
(* thread is making; `seq` tells a late reply from the awaited one.        *)
(***************************************************************************)
EXTENDS Naturals, Sequences, FiniteSets, Functions, SequencesExt

CONSTANTS
  Accounts,
  Conns,         \* connection threads
  AccountOf,     \* connection -> the account it authenticated as
  Central,       \* CENTRAL_KEY
  Settlers,      \* a set of naturals: list order is numeric order
  Born,          \* account -> the settlers its personal world starts with
  Graduated,     \* accounts whose personal world has state.graduated
  GroupCap,      \* CENTRAL_MIGRANTS_PER_ACCOUNT
  MaxPopulation, \* MAX_POPULATION
  MaxWorlds,     \* MAX_ACCOUNT_WORLDS
  MaxThreads,    \* bound: world threads spawned in any case
  Cases          \* the cases explored: whether every wait is answered within
                 \* MIGRATE_REPLY_TIMEOUT, whether the process gets SIGTERM, and, to
                 \* bound it, who calls, the worlds that reach IDLE_SHUTDOWN, the
                 \* calls made and the threads spawned

ASSUME ManagerAssumption ==
  /\ AccountOf \in [Conns -> Accounts] /\ Central \notin Accounts /\ "nobody" \notin Conns
  /\ Settlers \subseteq Nat /\ IsFiniteSet(Settlers)
  /\ Born \in [Accounts -> SUBSET Settlers]
  /\ \A a, b \in Accounts : a # b => Born[a] \cap Born[b] = {}
  /\ Graduated \subseteq Accounts
  /\ GroupCap \in Nat /\ MaxPopulation \in Nat /\ MaxWorlds \in Nat
  /\ MaxThreads \in Nat
  /\ Cases \subseteq [prompt : BOOLEAN, stops : BOOLEAN, callers : SUBSET Conns,
                     idles : Nat, calls : Nat, threads : 0..MaxThreads]

VARIABLES
  worlds,  \* WorldManager.worlds: key -> thread
  entry,   \* central_entry: the connection holding it, if any
  thread,  \* every world thread ever spawned, in order
  file,    \* key -> the settlers in that world's save
  call,    \* connection -> the call it is inside of
  calls,   \* calls made so far
  stopping,\* "no", "flagged" (by stop_all), "joining", "exited" (main returned)
  drained, \* the threads join_all waits for
  case     \* the case of Cases this behaviour is in

vars == <<worlds, entry, thread, file, call, calls, stopping, drained, case>>

Keys    == Accounts \cup {Central}
Nobody  == "nobody"
Threads == 1..Len(thread)
Me(c)   == AccountOf[c]

\* The settlers an account owns among some.
Owned(a, S) == S \cap Born[a]
\* The first n of a group, in list order.
Least(S, n) == {s \in S : Cardinality({r \in S : r < s}) < n}
Smaller(m, n) == IF m < n THEN m ELSE n

\* A thread: boot, up (in its loop), leaving (out of it, final save due),
\* closed (saved, receiver dropped), ended (its map entry removed).
Fresh(k) == [key |-> k, st |-> "boot", flag |-> FALSE, people |-> {},
             inbox |-> <<>>, guests |-> {}]
Hears(t) == thread[t].st \in {"boot", "up", "leaving"}

\* A connection thread that is in no call, one whose `at` says where it is.
Waiting == [is |-> "waiting"]
Dropped == [is |-> "dropped"]
Ungraduated == [is |-> "none"]
Answer(v) == [is |-> "value", value |-> v]
WaitingPlaces == {"joining", "counting", "extracting", "entering", "fetching", "settling"}
Outside == [at |-> "out", goal |-> "none", cen |-> 0, own |-> 0, want |-> 0,
            held |-> {}, retry |-> FALSE, seq |-> 0, ans |-> Waiting]

Init ==
  /\ worlds = [k \in {} |-> 0] /\ entry = Nobody /\ thread = <<>>
  /\ file = [k \in Keys |-> IF k = Central THEN {} ELSE Born[k]]
  /\ call = [c \in Conns |-> Outside]
  /\ calls = 0 /\ stopping = "no" /\ drained = {} /\ case \in Cases

-----------------------------------------------------------------------------
(* Steps of a call *)

Alive == stopping # "exited"
At(c, place) == Alive /\ call[c].at = place
Goto(c, place) == call' = [call EXCEPT ![c].at = place]
GotoWith(c, place, field, v) ==
  call' = [call EXCEPT ![c] = [@ EXCEPT !.at = place, ![field] = v]]

\* spawn_world: the running thread's sender, or a new thread, or None at the
\* cap.  `field` is where the call keeps the sender.
Full(k) ==
  /\ k \notin DOMAIN worlds /\ k # Central
  /\ Cardinality(DOMAIN worlds) >= MaxWorlds

Resolve(c, k, field, place) ==
  /\ ~Full(k)
  /\ IF k \in DOMAIN worlds
       THEN GotoWith(c, place, field, worlds[k]) /\ UNCHANGED <<worlds, thread>>
       ELSE /\ Len(thread) < case.threads
            /\ thread' = Append(thread, Fresh(k))
            /\ worlds' = [x \in DOMAIN worlds \cup {k} |->
                            IF x = k THEN Len(thread) + 1 ELSE worlds[x]]
            /\ GotoWith(c, place, field, Len(thread) + 1)
  /\ UNCHANGED <<entry, file, calls, stopping>>

\* A call that ends: in a world, or out with a refusal; the entry lock goes.
Ends_KeepsLock(c, result) ==
  /\ call' = [call EXCEPT ![c] = [Outside EXCEPT !.at = result, !.seq = call[c].seq]]
  /\ UNCHANGED entry

Ends(c, result) ==
  /\ call' = [call EXCEPT ![c] = [Outside EXCEPT !.at = result, !.seq = call[c].seq]]
  /\ entry' = IF entry = c THEN Nobody ELSE entry

\* A send, and the wait for its answer, or the other branch when the
\* receiver is gone.
Ask(c, t, kind, arg, waits, otherwise) ==
  IF Hears(t)
    THEN /\ thread' = [thread EXCEPT ![t].inbox =
                         Append(@, [kind |-> kind, from |-> c, arg |-> arg, seq |-> call[c].seq + 1])]
         /\ call' = [call EXCEPT ![c].at = waits, ![c].seq = @ + 1, ![c].ans = Waiting]
         /\ UNCHANGED <<worlds, entry, file, calls, stopping>>
    ELSE otherwise /\ UNCHANGED <<worlds, thread, file, calls, stopping>>

Tell(t, kind, c, S) ==
  thread' = IF Hears(t)
              THEN [thread EXCEPT ![t].inbox =
                      Append(@, [kind |-> kind, from |-> c, arg |-> S, seq |-> 0])]
              ELSE thread

\* What recv_timeout (and recv, for a join) came back with.
Answered(c) == call[c].ans.is = "value"
Failed(c)   == call[c].ans = Dropped
TimesOut(c) == ~case.prompt /\ call[c].ans = Waiting
Value(c)    == call[c].ans.value

\* The map entry is dropped and the world resolved again.
Forget(c, k, place) ==
  /\ worlds' = Restrict(worlds, DOMAIN worlds \ {k})
  /\ Goto(c, place)
  /\ UNCHANGED <<entry, thread, file, calls, stopping>>

Quiet == UNCHANGED <<worlds, thread, file, calls, stopping>>

Locks(c) == entry = Nobody

\* A client's first message, or its later move to another world (which leaves
\* the one it is in).
Begin(c, goal) ==
  /\ Alive /\ call[c].at \in {"out", "in"} /\ c \in case.callers /\ calls < case.calls
  /\ calls' = calls + 1
  /\ call' = [call EXCEPT ![c] = [Outside EXCEPT !.goal = goal, !.seq = call[c].seq,
                                    !.at = IF goal = "login" THEN "own" ELSE "lock"]]
  /\ thread' = [t \in Threads |-> [thread[t] EXCEPT !.guests = @ \ {c}]]
  /\ UNCHANGED <<worlds, entry, file, stopping, drained>>

Lock(c) ==
  /\ At(c, "lock") /\ Locks(c)
  /\ entry' = c
  /\ Goto(c, IF call[c].goal = "central" THEN "cen" ELSE "own")
  /\ UNCHANGED <<worlds, thread, file, calls, stopping>>

\* get_or_spawn of the account's personal world: the first step of a login and
\* of a return, the last resolve of an entry.
Own(c) ==
  /\ At(c, "own")
  /\ \/ Full(Me(c)) /\ Ends(c, "out") /\ Quiet
     \/ Resolve(c, Me(c), "own",
          CASE call[c].goal = "login" -> "join"
            [] call[c].goal = "central" -> "extract"
            [] call[c].goal = "home" -> "find")

\* join_account's tail, shared by return_home: join, and once more against a
\* fresh world when the first turns out to be stale.
JoinOwn(c) ==
  /\ At(c, "join")
  /\ Ask(c, call[c].own, "join", {}, "joining",
         IF call[c].retry THEN Ends(c, "out") ELSE Goto(c, "forget") /\ UNCHANGED entry)

Joining(c) ==
  /\ At(c, "joining")
  /\ \/ Answered(c) /\ Ends(c, "in")
     \/ Failed(c) /\ IF call[c].retry THEN Ends(c, "out") ELSE Goto(c, "forget") /\ UNCHANGED entry
  /\ Quiet

ForgetOwn(c) == At(c, "forget") /\ Forget(c, Me(c), "again")

OwnAgain(c) ==
  /\ At(c, "again")
  /\ \/ Full(Me(c)) /\ Ends(c, "out") /\ Quiet
     \/ LET k == Me(c)
        IN  /\ ~Full(k)
            /\ k \in DOMAIN worlds \/ Len(thread) < case.threads
            /\ call' = [call EXCEPT ![c].at = "join", ![c].retry = TRUE,
                          ![c].own = IF k \in DOMAIN worlds THEN worlds[k] ELSE Len(thread) + 1]
            /\ IF k \in DOMAIN worlds
                 THEN UNCHANGED <<worlds, thread>>
                 ELSE /\ thread' = Append(thread, Fresh(k))
                      /\ worlds' = [x \in DOMAIN worlds \cup {k} |->
                                      IF x = k THEN Len(thread) + 1 ELSE worlds[x]]
            /\ UNCHANGED <<entry, file, calls, stopping>>

-----------------------------------------------------------------------------
(* enter_central *)

Cen(c) == At(c, "cen") /\ Resolve(c, Central, "cen", "count")

\* The central sender is re-resolved once the count is in.
Want(owned) == IF owned < GroupCap THEN GroupCap - owned ELSE 0

Count(c) ==
  /\ At(c, "count")
  /\ Ask(c, call[c].cen, "count", {}, "counting",
         IF call[c].retry THEN Ends(c, "out") ELSE Goto(c, "stale") /\ UNCHANGED entry)

Counting(c) ==
  /\ At(c, "counting")
  /\ \/ /\ Answered(c)
        /\ GotoWith(c, "recheck", "want", Want(Value(c))) /\ UNCHANGED entry
     \/ /\ Failed(c) \/ TimesOut(c)
        /\ IF call[c].retry THEN Ends(c, "out") ELSE Goto(c, "stale") /\ UNCHANGED entry
  /\ Quiet

Stale(c) ==
  /\ At(c, "stale")
  /\ worlds' = Restrict(worlds, DOMAIN worlds \ {Central})
  /\ GotoWith(c, "cen", "retry", TRUE)
  /\ UNCHANGED <<entry, thread, file, calls, stopping>>

Recheck(c) ==
  /\ At(c, "recheck")
  /\ Resolve(c, Central, "cen", IF call[c].want = 0 THEN "enter" ELSE "own")

Extract(c) ==
  /\ At(c, "extract")
  /\ Ask(c, call[c].own, "extract", call[c].want, "extracting", Ends(c, "out"))

\* The answer: None before graduation, or the settlers that left home.
Extracting(c) ==
  /\ At(c, "extracting")
  /\ \/ /\ call[c].ans = Ungraduated
        /\ IF call[c].want = GroupCap THEN Ends(c, "out") ELSE Goto(c, "enter") /\ UNCHANGED entry
     \/ /\ Answered(c)
        /\ GotoWith(c, IF Value(c) = {} THEN "enter" ELSE "inject", "held", Value(c))
        /\ UNCHANGED entry
     \/ (Failed(c) \/ TimesOut(c)) /\ Ends(c, "out")
  /\ Quiet

\* InjectMigrants into the central world; nobody answers it.
Inject(c) ==
  /\ At(c, "inject")
  /\ Tell(call[c].cen, "inject", c, call[c].held)
  /\ IF Hears(call[c].cen)
       THEN GotoWith(c, "enter", "held", {}) /\ UNCHANGED entry
       ELSE Ends(c, "out")
  /\ UNCHANGED <<worlds, file, calls, stopping>>

Enter(c) ==
  /\ At(c, "enter")
  /\ Ask(c, call[c].cen, "join", {}, "entering", Ends(c, "out"))

Entering(c) ==
  /\ At(c, "entering")
  /\ \/ Answered(c) /\ Ends(c, "in")
     \/ Failed(c) /\ Ends(c, "out")
  /\ Quiet

-----------------------------------------------------------------------------
(* return_home *)

\* The central world only if it is already running.
Find(c) ==
  /\ At(c, "find")
  /\ IF Central \in DOMAIN worlds
       THEN GotoWith(c, "fetch", "cen", worlds[Central])
       ELSE Goto(c, "join")
  /\ UNCHANGED entry /\ Quiet

Fetch(c) ==
  /\ At(c, "fetch")
  /\ Ask(c, call[c].cen, "settlers", {}, "fetching", Goto(c, "join") /\ UNCHANGED entry)

Fetching(c) ==
  /\ At(c, "fetching")
  /\ \/ /\ Answered(c)
        /\ GotoWith(c, IF Value(c) = {} THEN "join" ELSE "settle", "held", Value(c))
     \/ (Failed(c) \/ TimesOut(c)) /\ Goto(c, "join")
  /\ UNCHANGED entry /\ Quiet

\* InjectReturnees carries a clone; the call keeps the list.
Settle(c) ==
  /\ At(c, "settle")
  /\ Ask(c, call[c].own, "returnees", call[c].held, "settling",
         Goto(c, "putback") /\ UNCHANGED entry)

\* `settlers.into_iter().skip(settled)`.
Leftover(S, settled) == S \ Least(S, settled)

Settling(c) ==
  /\ At(c, "settling")
  /\ \E settled \in {IF Answered(c) THEN Value(c) ELSE 0} :
       /\ Answered(c) \/ Failed(c) \/ TimesOut(c)
       /\ LET rest == Leftover(call[c].held, settled)
          IN  GotoWith(c, IF rest = {} THEN "join" ELSE "putback", "held", rest)
  /\ UNCHANGED entry /\ Quiet

\* Those who did not fit go back to the central world (`let _ = send`).
PutBack(c) ==
  /\ At(c, "putback")
  /\ Tell(call[c].cen, "inject", c, call[c].held)
  /\ GotoWith(c, "join", "held", {})
  /\ UNCHANGED <<worlds, entry, file, calls, stopping>>

CallStep(c) ==
  \/ Lock(c) \/ Own(c) \/ JoinOwn(c) \/ Joining(c) \/ ForgetOwn(c) \/ OwnAgain(c)
  \/ Cen(c) \/ Count(c) \/ Counting(c) \/ Stale(c) \/ Recheck(c)
  \/ Extract(c) \/ Extracting(c) \/ Inject(c) \/ Enter(c) \/ Entering(c)
  \/ Find(c) \/ Fetch(c) \/ Fetching(c) \/ Settle(c) \/ Settling(c) \/ PutBack(c)

-----------------------------------------------------------------------------
(* Steps of a world thread *)

\* The thread loads its save and starts its loop.
BootUp(t) ==
  /\ Alive /\ thread[t].st = "boot"
  /\ thread' = [thread EXCEPT ![t].st = "up", ![t].people = file[thread[t].key]]
  /\ UNCHANGED <<worlds, entry, file, call, calls, stopping>>

\* extract_migrants: at most `max`, and one settler always stays behind.
MayLeave(S, max) ==
  IF S = {} THEN 0 ELSE Smaller(max, Cardinality(S) - 1)

\* inject_migrants: up to the account's cap, the rest are dropped.
Admitted_All(a, S, group) == group

Admitted_OneLess(a, S, group) ==
  LET n == Cardinality(Owned(a, S))
  IN  Least(group, IF n + 1 < GroupCap THEN GroupCap - n - 1 ELSE 0)

Admitted(a, S, group) ==
  LET n == Cardinality(Owned(a, S))
  IN  Least(group, IF n < GroupCap THEN GroupCap - n ELSE 0)

\* inject_returnees: up to the population ceiling.  People the model does not
\* follow (born at home meanwhile) may have taken any part of the room, and a
\* run that is over leaves none.
Room(S) == IF Cardinality(S) < MaxPopulation THEN MaxPopulation - Cardinality(S) ELSE 0

Reply(m, answer) ==
  IF call[m.from].seq = m.seq /\ call[m.from].at \in WaitingPlaces
    THEN [call EXCEPT ![m.from].ans = answer]
    ELSE call

\* One message, in the drain loop.
Handle(t) ==
  /\ Alive /\ thread[t].st = "up" /\ thread[t].inbox # <<>>
  /\ LET m == Head(thread[t].inbox)
         S == thread[t].people
         Becomes(people) ==
           thread' = [thread EXCEPT ![t].inbox = Tail(@), ![t].people = people]
     IN  \/ /\ m.kind = "join"
            /\ thread' = [thread EXCEPT ![t].inbox = Tail(@), ![t].guests = @ \cup {m.from}]
            /\ call' = Reply(m, Answer({}))
         \/ /\ m.kind = "count"
            /\ call' = Reply(m, Answer(Cardinality(Owned(Me(m.from), S))))
            /\ Becomes(S)
         \/ /\ m.kind = "extract" /\ Me(m.from) \notin Graduated
            /\ call' = Reply(m, Ungraduated) /\ Becomes(S)
         \/ /\ m.kind = "extract" /\ Me(m.from) \in Graduated
            /\ \E gone \in SUBSET S :
                 /\ Cardinality(gone) = MayLeave(S, m.arg)
                 /\ call' = Reply(m, Answer(gone)) /\ Becomes(S \ gone)
         \/ /\ m.kind = "inject"
            /\ Becomes(S \cup Admitted(Me(m.from), S, m.arg)) /\ UNCHANGED call
         \/ /\ m.kind = "settlers"
            /\ call' = Reply(m, Answer(Owned(Me(m.from), S)))
            /\ Becomes(S \ Born[Me(m.from)])
         \/ /\ m.kind = "returnees"
            /\ \E n \in 0..Smaller(Room(S), Cardinality(m.arg)) :
                 /\ call' = Reply(m, Answer(n)) /\ Becomes(S \cup Least(m.arg, n))
  /\ UNCHANGED <<worlds, entry, file, calls, stopping>>

\* Out of the loop: the shutdown flag, or nobody connected for IDLE_SHUTDOWN.
MayIdle == Cardinality({t \in Threads : thread[t].st \in {"leaving", "closed", "ended"}}) < case.idles

Quit(t) ==
  /\ Alive /\ thread[t].st = "up"
  /\ thread[t].flag \/ (MayIdle /\ thread[t].guests = {})
  /\ thread' = [thread EXCEPT ![t].st = "leaving"]
  /\ UNCHANGED <<worlds, entry, file, call, calls, stopping>>

\* The final save; then the receiver is dropped with whatever it still holds,
\* and the waiting calls find out.
Close(t) ==
  LET orphaned == {c \in Conns : \E i \in DOMAIN thread[t].inbox :
                      /\ thread[t].inbox[i].from = c
                      /\ thread[t].inbox[i].seq = call[c].seq /\ call[c].seq > 0}
  IN  /\ Alive /\ thread[t].st = "leaving"
      /\ file' = [file EXCEPT ![thread[t].key] = thread[t].people]
      /\ thread' = [thread EXCEPT ![t].st = "closed", ![t].inbox = <<>>, ![t].guests = {}]
      /\ call' = [c \in Conns |-> IF c \in orphaned
                                    THEN [call[c] EXCEPT !.ans = Dropped] ELSE call[c]]
      /\ UNCHANGED <<worlds, entry, calls, stopping>>

\* `this.worlds.lock().unwrap().remove(&key)` at the end of the closure.
EndThread(t) ==
  /\ Alive /\ thread[t].st = "closed"
  /\ thread' = [thread EXCEPT ![t].st = "ended"]
  /\ worlds' = Restrict(worlds, DOMAIN worlds \ {thread[t].key})
  /\ UNCHANGED <<entry, file, call, calls, stopping>>

ThreadStep(t) == BootUp(t) \/ Handle(t) \/ Quit(t) \/ Close(t) \/ EndThread(t)

-----------------------------------------------------------------------------
(* Shutdown *)

\* stop_all, from the SIGTERM handler.
StopAll ==
  /\ case.stops /\ stopping = "no"
  /\ stopping' = "flagged"
  /\ thread' = [t \in Threads |->
                  IF \E k \in DOMAIN worlds : worlds[k] = t
                    THEN [thread[t] EXCEPT !.flag = TRUE] ELSE thread[t]]
  /\ UNCHANGED <<worlds, entry, file, call, calls, drained>>

\* join_all drains the map and blocks until what it drained has ended; then
\* main returns, and with it every thread that is still running.
JoinAll ==
  /\ stopping = "flagged"
  /\ stopping' = "joining"
  /\ drained' = {worlds[k] : k \in DOMAIN worlds}
  /\ worlds' = [k \in {} |-> 0]
  /\ UNCHANGED <<entry, thread, file, call, calls>>

Joined_Unsaved == TRUE

Joined == \A t \in drained : thread[t].st = "ended"

MainReturns ==
  /\ stopping = "joining" /\ Joined
  /\ stopping' = "exited"
  /\ UNCHANGED <<worlds, entry, thread, file, call, calls, drained>>

-----------------------------------------------------------------------------
Calls(c)   == CallStep(c) /\ UNCHANGED <<drained, case>>
Lives(t)   == ThreadStep(t) /\ UNCHANGED <<drained, case>>
JoinsAll   == JoinAll /\ UNCHANGED case
Exits      == MainReturns /\ UNCHANGED case

Next ==
  \/ \E c \in Conns :
       \/ \E goal \in {"login", "central", "home"} : Begin(c, goal) /\ UNCHANGED case
       \/ Calls(c)
  \/ \E t \in Threads : Lives(t)
  \/ (StopAll /\ UNCHANGED case) \/ JoinsAll \/ Exits

Spec == Init /\ [][Next]_vars

\* Connection threads, world threads and the main thread are scheduled, the
\* mutex is handed on.
FairSpec ==
  /\ Spec
  /\ \A c \in Conns : WF_vars(Calls(c))
  /\ \A t \in 1..MaxThreads : WF_vars(t \in Threads /\ Lives(t))
  /\ WF_vars(JoinsAll) /\ WF_vars(Exits)

-----------------------------------------------------------------------------
(* Properties *)

\* Every variable has its type.
TypeOK ==
  /\ DOMAIN worlds \subseteq Keys /\ \A k \in DOMAIN worlds : worlds[k] \in Threads
  /\ entry \in Conns \cup {Nobody}
  /\ \A t \in Threads :
       /\ thread[t].key \in Keys /\ thread[t].people \subseteq Settlers
       /\ thread[t].st \in {"boot", "up", "leaving", "closed", "ended"}
       /\ thread[t].flag \in BOOLEAN /\ thread[t].guests \subseteq Conns
  /\ file \in [Keys -> SUBSET Settlers]
  /\ \A c \in Conns :
       /\ call[c].held \subseteq Settlers /\ call[c].seq \in Nat
       /\ call[c].want \in 0..GroupCap
  /\ stopping \in {"no", "flagged", "joining", "exited"} /\ case \in Cases

\* Where a world's settlers really are: in the thread that runs it, else in
\* its save.
Running(k) == {t \in Threads : thread[t].key = k /\ thread[t].st \in {"up", "leaving"}}
PeopleOf(k) == IF Running(k) = {} THEN file[k] ELSE UNION {thread[t].people : t \in Running(k)}

\* On their way: in a message a world will still read, in a call's hands, or in
\* an answer the call has yet to look at.
Travelling ==
  UNION ( {call[c].held : c \in Conns}
    \cup {call[c].ans.value : c \in {d \in Conns :
            call[d].at \in {"extracting", "fetching"} /\ Answered(d)}}
    \cup UNION {{m.arg : m \in {n \in Range(thread[t].inbox) :
                   n.kind \in {"inject", "returnees"}}} : t \in Threads} )

Accounted == (UNION {PeopleOf(k) : k \in Keys}) \cup Travelling

Undisturbed == case.prompt /\ case.idles = 0

\* The settlers a trip takes out of one world reach another one: everybody is
\* in some world or on the way to one, and nobody in two, however two devices'
\* trips interleave, as long as no wait runs out, no world idles out under them
\* and the process is not being stopped.
EachInOneWorld ==
  Undisturbed /\ stopping = "no" =>
    /\ UNION {Born[a] : a \in Accounts} \subseteq Accounted
    /\ \A k, j \in Keys : k # j => PeopleOf(k) \cap PeopleOf(j) = {}

\* No simulation of the central world, and no save of it, ever holds more than
\* CENTRAL_MIGRANTS_PER_ACCOUNT settlers of one account, however entries,
\* returns, timeouts, restarts and late deliveries interleave.
GroupWithinCap ==
  \A a \in Accounts :
    /\ Cardinality(Owned(a, file[Central])) <= GroupCap
    /\ \A t \in Threads : thread[t].key = Central =>
         Cardinality(Owned(a, thread[t].people)) <= GroupCap

\* A world that stop_all told to stop has made its final save by the time the
\* process exits, as long as no world had idled out and no wait had run out
\* before: a thread that ends removes whatever entry then has its key, a call
\* that gave up on the central world removes its entry, and join_all knows a
\* world only by its entry.
ToldWorldsSaved ==
  Undisturbed /\ stopping = "exited" => \A t \in Threads : thread[t].flag => thread[t].st \in {"closed", "ended"}

\* Every join_account, enter_central and return_home returns, with a place in
\* a world or a refusal, unless the process exits first.
InCall(c) == call[c].at \notin {"out", "in"}
=============================================================================
