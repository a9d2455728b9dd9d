----------------------------- MODULE Multicast -----------------------------
(***************************************************************************)
(* internal/api/multicast.go: Multicast, the group of clients that are     *)
(* subscribed to the ErrorLog or the AuditLog API, with the handlers       *)
(* (server.go: logError, logAudit) that join and leave it and the loggers  *)
(* (log.go: Handle, audit.go: Log) that write to it.                       *)
(*                                                                         *)
(* The group is an immutable slice behind an atomic pointer.  Add and      *)
(* Remove copy it and try to replace it by compare-and-swap; Write sends   *)
(* to the slice it loaded, whatever happens to the group meanwhile.  A     *)
(* compare-and-swap compares pointers, not slices: it succeeds if nobody   *)
(* replaced the slice since it was loaded.                                 *)
(***************************************************************************)
CONSTANTS
    Subscribers,   \* clients, each with a handler goroutine and an io.Writer
    Loggers,       \* goroutines that log an event
    Nil            \* the nil pointer of a Multicast's zero value

ASSUME NilNotAGroup == \A G \in SUBSET Subscribers : G # Nil

VARIABLES
    group,     \* Multicast.group: the writers it points to, or Nil
    pc,        \* where each subscriber's handler is
    old,       \* the group it loaded in Add or Remove
    current,   \* the handlers whose old is still the group's pointer
    lpc,       \* where each logger is
    pending,   \* the writers its Write has not yet written to
    reached,   \* history: the writers it has written to
    due,       \* history: clients that were subscribed when it started to log
               \* and have not begun to leave since
    left       \* history: clients that had left when it started to log

subVars == <<group, pc, old, current>>
logVars == <<lpc, pending, reached, left>>
vars == <<subVars, logVars, due>>

Groups == {Nil} \cup SUBSET Subscribers

TypeOK ==
    /\ group \in Groups
    /\ pc \in [Subscribers -> {"idle", "add", "addFirst", "addSwap", "subscribed",
                               "remove", "removeSwap", "left", "panicked"}]
    /\ old \in [Subscribers -> Groups]
    /\ \A s \in Subscribers : pc[s] \in {"addSwap", "removeSwap"} => old[s] # Nil
    /\ current \in SUBSET Subscribers
    /\ lpc \in [Loggers -> {"idle", "num", "write", "each", "done"}]
    /\ pending \in [Loggers -> SUBSET Subscribers]
    /\ reached \in [Loggers -> SUBSET Subscribers]
    /\ due \in [Loggers -> SUBSET Subscribers]
    /\ left \in [Loggers -> SUBSET Subscribers]

Init ==
    /\ group = Nil
    /\ pc = [s \in Subscribers |-> "idle"]
    /\ old = [s \in Subscribers |-> Nil]
    /\ current = {}
    /\ lpc = [l \in Loggers |-> "idle"]
    /\ pending = [l \in Loggers |-> {}]
    /\ reached = [l \in Loggers |-> {}]
    /\ due = [l \in Loggers |-> {}]
    /\ left = [l \in Loggers |-> {}]

-----------------------------------------------------------------------------
Goto(s, from, to) ==
    /\ pc[s] = from
    /\ pc' = [pc EXCEPT ![s] = to]

(* The writers a load of the group sees: none for the nil pointer.         *)
Members == IF group = Nil THEN {} ELSE group

(* m.group.Load() at the head of the loops of Add and Remove.              *)
Load(s) ==
    /\ old' = [old EXCEPT ![s] = group]
    /\ current' = current \cup {s}
    /\ UNCHANGED group

(* Mutant of Swap: the group is stored, whoever changed it meanwhile.      *)
Overwrite(s, new, done, again) ==
    /\ pc' = [pc EXCEPT ![s] = done]
    /\ group' = new
    /\ current' = {}
    /\ UNCHANGED old

(* Mutant of Swap: it is tried again without loading the group anew.       *)
SwapNoReload(s, new, done, again) ==
    /\ IF s \in current
       THEN group' = new /\ current' = {} /\ pc' = [pc EXCEPT ![s] = done]
       ELSE UNCHANGED <<group, current, pc>>
    /\ UNCHANGED old

(* CompareAndSwap(old, new): the loop starts over if it fails.             *)
Swap(s, new, done, again) ==
    /\ \/ /\ s \in current
          /\ group' = new
          /\ current' = {}
          /\ pc' = [pc EXCEPT ![s] = done]
       \/ /\ s \notin current
          /\ pc' = [pc EXCEPT ![s] = again]
          /\ UNCHANGED <<group, current>>
    /\ UNCHANGED old

(* Mutant of AddFirst: the nil pointer is taken for an empty slice.        *)
AddFirstCopies(s) ==
    /\ \/ /\ group = Nil
          /\ Goto(s, "addFirst", "subscribed")
          /\ group' = {s}
          /\ current' = {}
       \/ /\ group # Nil
          /\ Goto(s, "addFirst", "addSwap")
          /\ UNCHANGED <<group, current>>
    /\ UNCHANGED <<old, logVars, due>>

(***************************************************************************)
(* Add(w).  With no group yet, the first compare-and-swap expects the nil  *)
(* pointer.  If another goroutine was faster, *old in the lines that       *)
(* follow dereferences the nil pointer.                                    *)
(***************************************************************************)
Subscribe(s) ==
    /\ Goto(s, "idle", "add")
    /\ UNCHANGED <<group, old, current, logVars, due>>

AddLoad(s) ==
    /\ \/ group = Nil /\ Goto(s, "add", "addFirst")
       \/ group # Nil /\ Goto(s, "add", IF s \in Members THEN "subscribed" ELSE "addSwap")
    /\ Load(s)
    /\ UNCHANGED <<logVars, due>>

AddFirst(s) ==
    /\ \/ /\ group = Nil
          /\ Goto(s, "addFirst", "subscribed")
          /\ group' = {s}
          /\ current' = {}
       \/ /\ group # Nil
          /\ Goto(s, "addFirst", "panicked")
          /\ UNCHANGED <<group, current>>
    /\ UNCHANGED <<old, logVars, due>>

AddSwap(s) ==
    /\ pc[s] = "addSwap"
    /\ Swap(s, old[s] \cup {s}, "subscribed", "add")
    /\ UNCHANGED <<logVars, due>>

(***************************************************************************)
(* The request's context is done: the deferred Remove(w).                  *)
(***************************************************************************)
Unsubscribe(s) ==
    /\ Goto(s, "subscribed", "remove")
    /\ due' = [l \in Loggers |-> due[l] \ {s}]
    /\ UNCHANGED <<group, old, current, logVars>>

RemoveLoad(s) ==
    /\ Goto(s, "remove", IF s \in Members THEN "removeSwap" ELSE "left")
    /\ Load(s)
    /\ UNCHANGED <<logVars, due>>

RemoveSwap(s) ==
    /\ pc[s] = "removeSwap"
    /\ Swap(s, old[s] \ {s}, "left", "remove")
    /\ UNCHANGED <<logVars, due>>

SubscriberStep(s) ==
    \/ AddLoad(s)
    \/ AddFirst(s)
    \/ AddSwap(s)
    \/ RemoveLoad(s)
    \/ RemoveSwap(s)

-----------------------------------------------------------------------------
(***************************************************************************)
(* A logger.  Handle (Log) asks for Num first and then writes: Write loads *)
(* the group again and writes to one member after the other, also after a  *)
(* member returned an error.                                               *)
(***************************************************************************)
LGoto(l, from, to) ==
    /\ lpc[l] = from
    /\ lpc' = [lpc EXCEPT ![l] = to]

Subscribed == {s \in Subscribers : pc[s] = "subscribed"}
Left == {s \in Subscribers : pc[s] = "left"}

Log(l) ==
    /\ LGoto(l, "idle", "num")
    /\ due' = [due EXCEPT ![l] = Subscribed]
    /\ left' = [left EXCEPT ![l] = Left]
    /\ reached' = [reached EXCEPT ![l] = {}]
    /\ UNCHANGED <<subVars, pending>>

(* m.Num() > 0                                                             *)
Num(l) ==
    /\ LGoto(l, "num", IF Members # {} THEN "write" ELSE "done")
    /\ UNCHANGED <<subVars, pending, reached, left, due>>

WriteLoad(l) ==
    /\ LGoto(l, "write", "each")
    /\ pending' = [pending EXCEPT ![l] = Members]
    /\ UNCHANGED <<subVars, reached, left, due>>

(* Mutant of WriteTo: Write returns when a writer returns an error.        *)
WriteToUntilError(l, s) ==
    /\ s \in pending[l]
    /\ pending' \in {[pending EXCEPT ![l] = @ \ {s}], [pending EXCEPT ![l] = {}]}
    /\ reached' = [reached EXCEPT ![l] = @ \cup {s}]
    /\ UNCHANGED <<subVars, lpc, left, due>>

WriteTo(l, s) ==
    /\ s \in pending[l]
    /\ pending' = [pending EXCEPT ![l] = @ \ {s}]
    /\ reached' = [reached EXCEPT ![l] = @ \cup {s}]
    /\ UNCHANGED <<subVars, lpc, left, due>>

WriteDone(l) ==
    /\ pending[l] = {}
    /\ LGoto(l, "each", "done")
    /\ UNCHANGED <<subVars, pending, reached, left, due>>

LogReturn(l) ==
    /\ LGoto(l, "done", "idle")
    /\ reached' = [reached EXCEPT ![l] = {}]
    /\ due' = [due EXCEPT ![l] = {}]
    /\ left' = [left EXCEPT ![l] = {}]
    /\ UNCHANGED <<subVars, pending>>

Logger(l) ==
    \/ Log(l)
    \/ Num(l)
    \/ WriteLoad(l)
    \/ \E s \in Subscribers : WriteTo(l, s)
    \/ WriteDone(l)
    \/ LogReturn(l)

Next ==
    \/ \E s \in Subscribers : Subscribe(s) \/ SubscriberStep(s) \/ Unsubscribe(s)
    \/ \E l \in Loggers : Logger(l)

Spec == Init /\ [][Next]_vars

(* Goroutines that can run are run.  When a client comes and when it goes  *)
(* is up to the client.                                                    *)
Fairness == \A s \in Subscribers : WF_vars(SubscriberStep(s))

FairSpec == Spec /\ Fairness

-----------------------------------------------------------------------------
(* No update of the group is lost: a client whose Add returned is a member *)
(* until it calls Remove, and is none after Remove returned, whatever the  *)
(* other clients' Add and Remove copied in between.                        *)
NoLostUpdate == Subscribed \subseteq Members /\ Left \cap Members = {}

(* "Future writes to m will also reach w" (Add) and "It [...] writes to    *)
(* all io.Writers before returning" (Write): an event reaches every client *)
(* that was subscribed before it was logged and is still subscribed        *)
(* afterwards, although Num and Write look at different groups.            *)
Delivered ==
    \A l \in Loggers : lpc[l] = "done" => due[l] \subseteq reached[l]

(* "Future writes to m will no longer reach w" (Remove): an event logged   *)
(* after Remove returned is not written to the ResponseWriter of a handler *)
(* that is gone.                                                           *)
LeftNotReached ==
    \A l \in Loggers : reached[l] \cap left[l] = {}

(* An event reaches every client it must and none that it must not.        *)
Reached == Delivered /\ LeftNotReached

(* Add and Remove end: the loops stop when the others' updates stop.       *)
LoopsEnd ==
    \A s \in Subscribers :
        pc[s] \in {"add", "remove"} ~> pc[s] \in {"subscribed", "left", "panicked"}

(* "A Multicast may be modified by multiple go routines concurrently. Its  *)
(* zero value is an empty group of io.Writers and ready for use": Add does *)
(* not dereference the nil pointer.                                        *)
NoNilDereference ==
    \A s \in Subscribers : pc[s] # "panicked"
=============================================================================
