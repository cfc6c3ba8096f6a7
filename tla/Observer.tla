------------------------------ MODULE Observer ------------------------------
(***************************************************************************)
(* The observer pattern of core/metaclasses (Observable.cpp, Observer.cpp) *)
(* CharDetails uses to tell the character panel what changed.  Everything  *)
(* runs on the UI thread: the only concurrency is reentrancy, a handler    *)
(* that attaches, detaches, creates or destroys observers, or notifies     *)
(* again, while a notification further up the call stack has not finished. *)
(*                                                                         *)
(* An element of Observers or Observables is an ADDRESS, so a new object   *)
(* may appear where a destroyed one was.  The two std::list members are    *)
(* modelled as the number of entries of each address: their order decides  *)
(* only the order of the calls, which is left open.                        *)
(***************************************************************************)
EXTENDS Naturals

CONSTANTS Observers,    \* addresses of Observer objects
          Observables,  \* addresses of Observable objects
          None,         \* no handler is running
          MaxDepth      \* bound on notifications nested in each other

ASSUME NoneAssumption == None \notin Observers
ASSUME DepthAssumption == MaxDepth \in Nat \ {0}

VARIABLES alive,      \* the Observer objects that exist
          senders,    \* the Observable objects that exist
          observers,  \* Observable::m_observerList: entries of each observer
          observed,   \* Observer::m_observableList: entries of each observable
          depth,      \* how many notify calls are on the stack
          from,       \* for each of them, the sender,
          left,       \*   the entries of its snapshot not yet visited,
          running,    \*   the observer whose handler it called and awaits,
          dying,      \*   whether ~Observable made the call
          got,        \* history: how often each observer was called by it
          kept        \* history: its snapshot without those detached since

links == <<observers, observed>>
objects == <<alive, senders>>
calls == <<depth, from, left, running, dying, got>>
vars == <<objects, links, calls, kept>>

Levels == 1..MaxDepth
NoEntries == [o \in Observers |-> 0]

TypeOK == /\ alive \subseteq Observers
          /\ senders \subseteq Observables
          /\ observers \in [Observables -> [Observers -> Nat]]
          /\ observed \in [Observers -> [Observables -> Nat]]
          /\ depth \in 0..MaxDepth
          /\ from \in [Levels -> Observables]
          /\ left \in [Levels -> [Observers -> Nat]]
          /\ running \in [Levels -> Observers \cup {None}]
          /\ dying \in [Levels -> BOOLEAN]
          /\ got \in [Levels -> [Observers -> Nat]]
          /\ kept \in [Levels -> SUBSET Observers]

Init == /\ alive = {}
        /\ senders = Observables
        /\ observers = [s \in Observables |-> NoEntries]
        /\ observed = [o \in Observers |-> [s \in Observables |-> 0]]
        /\ depth = 0
        /\ from \in {[d \in Levels |-> s] : s \in Observables}
        /\ left = [d \in Levels |-> NoEntries]
        /\ running = [d \in Levels |-> None]
        /\ dying = [d \in Levels |-> FALSE]
        /\ got = [d \in Levels |-> NoEntries]
        /\ kept = [d \in Levels |-> {}]

\* Code outside the two classes runs in the event loop or in a handler.
ClientRuns == depth > 0 => running[depth] # None

\* observerAttached(o) # end()
Attached(s, o) == observers[s][o] > 0

NotYetAttached(s, o) == ~Attached(s, o)

\* Forgetting the other side of the link in detach.
BackLinkStays(s, o) == observed
BackLinkDropped(s, o) == [observed EXCEPT ![o][s] = @ - 1]

\* The recheck of notify against the live list, and its absence.
TrustSnapshot(s, o) == TRUE
StillAttached(s, o) == Attached(s, o)

\* A notification that gives up at the first observer gone, instead of
\* going on with the next one of the snapshot.
StopAtFirst(l, o) == NoEntries
SkipOne(l, o) == [l EXCEPT ![o] = @ - 1]

\* ~Observer that only empties its own list.
KeepsEntries(o) == observers
EntriesWithout(o) ==
    [s \in Observables |-> [observers[s] EXCEPT ![o] = @ - observed[o][s]]]

\* Levels whose sender is s: an observer detached from s leaves their kept.
KeptWithout(s, o) == [d \in Levels |-> IF from[d] = s THEN kept[d] \ {o}
                                                      ELSE kept[d]]

(***************************************************************************)
(* Objects and links, from the event loop or inside a handler.             *)
(***************************************************************************)
NewObserver(o) == /\ ClientRuns
                  /\ o \notin alive
                  /\ alive' = alive \cup {o}
                  /\ observed' = [observed EXCEPT ![o] = [s \in Observables |-> 0]]
                  /\ UNCHANGED <<senders, observers, calls, kept>>

NewObservable(s) == /\ ClientRuns
                    /\ s \notin senders
                    /\ senders' = senders \cup {s}
                    /\ observers' = [observers EXCEPT ![s] = NoEntries]
                    /\ UNCHANGED <<alive, observed, calls, kept>>

Attach(s, o) == /\ ClientRuns
                /\ s \in senders /\ o \in alive
                /\ NotYetAttached(s, o)
                /\ observers' = [observers EXCEPT ![s][o] = @ + 1]
                /\ observed' = IF observed[o][s] = 0      \* addObservable
                               THEN [observed EXCEPT ![o][s] = 1]
                               ELSE observed
                /\ UNCHANGED <<objects, calls, kept>>

Detach(s, o) == /\ ClientRuns
                /\ s \in senders /\ o \in alive
                /\ Attached(s, o)
                /\ observers' = [observers EXCEPT ![s][o] = @ - 1]
                /\ observed' = BackLinkDropped(s, o)
                /\ kept' = KeptWithout(s, o)
                /\ UNCHANGED <<objects, calls>>

\* ~Observer detaches itself from every observable of its list.  No client
\* deletes the observer whose own handler is on the stack.
DestroyObserver(o) ==
    /\ ClientRuns
    /\ o \in alive
    /\ \A d \in 1..depth : running[d] # o
    /\ alive' = alive \ {o}
    /\ observers' = EntriesWithout(o)
    /\ observed' = [observed EXCEPT ![o] = [s \in Observables |-> 0]]
    /\ kept' = [d \in Levels |-> kept[d] \ {o}]
    /\ UNCHANGED <<senders, calls>>

(***************************************************************************)
(* notify: take a snapshot, then visit its entries one after the other.    *)
(***************************************************************************)
BeginCall(s, dies) ==
    /\ ClientRuns
    /\ depth < MaxDepth
    /\ depth' = depth + 1
    /\ from' = [from EXCEPT ![depth + 1] = s]
    /\ left' = [left EXCEPT ![depth + 1] = observers[s]]
    /\ running' = [running EXCEPT ![depth + 1] = None]
    /\ dying' = [dying EXCEPT ![depth + 1] = dies]
    /\ got' = [got EXCEPT ![depth + 1] = NoEntries]
    /\ kept' = [kept EXCEPT ![depth + 1] = {o \in Observers : Attached(s, o)}]
    /\ UNCHANGED <<objects, links>>

Dying(s) == \E d \in 1..depth : from[d] = s /\ dying[d]

Notify(s) == s \in senders /\ ~Dying(s) /\ BeginCall(s, FALSE)

\* ~Observable first sends DESTROYED.  Nothing destroys an object whose own
\* notify is on the stack.
DestroyObservable(s) == /\ s \in senders
                        /\ \A d \in 1..depth : from[d] # s
                        /\ BeginCall(s, TRUE)

\* The snapshot entry is called only if it is attached at this moment.
Visit(o) == /\ depth > 0 /\ running[depth] = None
            /\ left[depth][o] > 0
            /\ IF StillAttached(from[depth], o)
               THEN /\ left' = [left EXCEPT ![depth][o] = @ - 1]
                    /\ running' = [running EXCEPT ![depth] = o]
                    /\ got' = [got EXCEPT ![depth][o] = @ + 1]
               ELSE /\ left' = [left EXCEPT ![depth] = SkipOne(left[depth], o)]
                    /\ UNCHANGED <<running, got>>
            /\ UNCHANGED <<objects, links, depth, from, dying, kept>>

HandlerReturns == /\ depth > 0 /\ running[depth] # None
                  /\ running' = [running EXCEPT ![depth] = None]
                  /\ UNCHANGED <<objects, links, depth, from, left, dying, got, kept>>

AllVisited == /\ depth > 0 /\ running[depth] = None
              /\ left[depth] = NoEntries

\* The call returns; its history is forgotten.
Return == /\ depth' = depth - 1
          /\ dying' = [dying EXCEPT ![depth] = FALSE]
          /\ got' = [got EXCEPT ![depth] = NoEntries]
          /\ kept' = [kept EXCEPT ![depth] = {}]

EndNotify == /\ AllVisited /\ ~dying[depth]
             /\ Return
             /\ UNCHANGED <<objects, links, from, left, running>>

\* The rest of ~Observable: drop every link still there.
EndDestroy == /\ AllVisited /\ dying[depth]
              /\ LET s == from[depth]
                 IN  /\ senders' = senders \ {s}
                     /\ observers' = [observers EXCEPT ![s] = NoEntries]
                     /\ observed' = [o \in Observers |->
                            [observed[o] EXCEPT ![s] = @ - observers[s][o]]]
              /\ Return
              /\ UNCHANGED <<alive, from, left, running>>

Next == \/ \E o \in Observers : NewObserver(o) \/ DestroyObserver(o) \/ Visit(o)
        \/ \E s \in Observables : \/ NewObservable(s) \/ Notify(s)
                                  \/ DestroyObservable(s)
        \/ \E s \in Observables, o \in Observers : Attach(s, o) \/ Detach(s, o)
        \/ HandlerReturns
        \/ EndNotify
        \/ EndDestroy

Spec == Init /\ [][Next]_vars

(***************************************************************************)
(* Properties.                                                             *)
(***************************************************************************)
\* Both ends of every link agree, no link is there twice, and only live
\* objects are linked.  removeObservable erases findObservable(obs) without
\* a test and ~Observer loops until its list is empty: without this they
\* erase end() and never end.
LinksAgree ==
    \A s \in Observables, o \in Observers :
       /\ observers[s][o] = observed[o][s]
       /\ observers[s][o] <= 1
       /\ Attached(s, o) => s \in senders /\ o \in alive

\* No notify on the stack, however deep, has called an observer that is
\* gone, nor goes on for a sender that is gone (the use-after-free the
\* comment of Observable::notify describes).
NoDeadCall ==
    \A d \in 1..depth : /\ from[d] \in senders
                        /\ running[d] # None => running[d] \in alive

\* One event reaches one observer at most once, even if a handler detaches
\* and attaches it again while the event is being delivered.
AtMostOnce ==
    \A d \in 1..depth, o \in Observers : got[d][o] + left[d][o] <= 1

\* When a notification ends, every observer that was attached when it began
\* and was not detached meanwhile has been called: the recheck skips only
\* those that are gone.
NoneSkipped ==
    AllVisited => \A o \in kept[depth] : got[depth][o] = 1
=============================================================================
