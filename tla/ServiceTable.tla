---------------------------- MODULE ServiceTable ----------------------------
(***************************************************************************)
(* What the service manager promises (ServiceManagerBase): a table from   *)
(* service names to the objects of the processes that added them.         *)
(*                                                                         *)
(* A process offers its object under a name (AddService); the name is     *)
(* taken by at most one object and an entry is never replaced.  An entry *)
(* disappears only when the object's process has exited (the death        *)
(* notification the service manager links to).  GetService (and         *)
(* CheckService) answer with the entry for a name as the table holds it  *)
(* when the request is served, or BadValue; ListServices reads the table. *)
(***************************************************************************)
CONSTANTS Proc, Name

VARIABLES status,      \* each process: "idle", "offering" (AddService sent), "exited"
          registered,  \* name -> process
          answer       \* the answer to the outstanding lookup: "none", "BadValue" or a process

tvars == <<status, registered, answer>>

TableInit ==
    /\ status = [p \in Proc |-> "idle"]
    /\ registered = [n \in {} |-> CHOOSE p \in Proc : TRUE]
    /\ answer = "none"

\* A process sends AddService.
Offer(p) ==
    /\ status[p] = "idle"
    /\ status' = [status EXCEPT ![p] = "offering"]
    /\ UNCHANGED <<registered, answer>>

\* A process exits, at any time.
Exit(p) ==
    /\ status[p] # "exited"
    /\ status' = [status EXCEPT ![p] = "exited"]
    /\ UNCHANGED <<registered, answer>>

\* AddService takes a free name for an object that was offered.
Register(n, p) ==
    /\ status[p] # "idle"
    /\ n \notin DOMAIN registered
    /\ registered' = [x \in DOMAIN registered \cup {n} |->
                        IF x = n THEN p ELSE registered[x]]
    /\ UNCHANGED <<status, answer>>

\* The entry of an object whose process has exited is dropped.
Forget(n) ==
    /\ n \in DOMAIN registered
    /\ status[registered[n]] = "exited"
    /\ registered' = [x \in DOMAIN registered \ {n} |-> registered[x]]
    /\ UNCHANGED <<status, answer>>

\* A lookup of n is served from the table as it is now.
Lookup(n) ==
    /\ answer = "none"
    /\ answer' = IF n \in DOMAIN registered THEN registered[n] ELSE "BadValue"
    /\ UNCHANGED <<status, registered>>

\* The caller takes the answer.
Consume ==
    /\ answer # "none"
    /\ answer' = "none"
    /\ UNCHANGED <<status, registered>>

TableNext ==
    \/ \E p \in Proc : Offer(p) \/ Exit(p)
    \/ \E n \in Name, p \in Proc : Register(n, p)
    \/ \E n \in Name : Forget(n) \/ Lookup(n)
    \/ Consume

TableSpec == TableInit /\ [][TableNext]_tvars

=============================================================================
