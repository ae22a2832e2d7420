-------------------------- MODULE ObjectTranslator --------------------------
(***************************************************************************)
(* One endpoint's ObjectTranslator (object_translator.cpp) shared by the  *)
(* threads of its ClientImpl: the application thread Out-translates the   *)
(* requests it sends and In-translates the replies it gets, pool workers  *)
(* In-translate the transactions they execute and Out-translate their     *)
(* replies.  Nothing locks the translator; next_object_id_ alone is       *)
(* atomic.                                                                 *)
(*                                                                         *)
(* A thread runs ProcessTransaction over a payload, one flat object per   *)
(* step.  TranslateOrAddObject is two steps: the TranslateObject scan of  *)
(* objects_, then (if it missed) the fetch-and-increment of the counter   *)
(* together with the insert.  Each map operation itself is taken to be    *)
(* atomic (the benign outcome of the unlocked map accesses).              *)
(*                                                                         *)
(* A payload is a sequence of flat objects [type, cookie]: the cookie of  *)
(* a Binder is a real address (negative) going Out and an opaque id going *)
(* In.  Handle stands for every kind ProcessTransaction passes through    *)
(* (Handle, WeakBinder, WeakHandle, FD); Invalid for any other type.      *)
(***************************************************************************)
EXTENDS Integers, Sequences, FiniteSets, TLC

CONSTANTS Thread,      \* threads of one endpoint using its translator
          Address,     \* real object addresses (negative integers)
          MaxId,       \* ids that may appear in an incoming payload: 1..MaxId
          MaxLen,      \* objects per payload
          MaxOps       \* translations per thread

ASSUME Address \subseteq Int /\ \A a \in Address : a < 0

VARIABLES objects,    \* ObjectTranslator::objects_: id -> address
          nextId,     \* ObjectTranslator::next_object_id_
          th,         \* the translation each thread is running, or its last result
          ops         \* translations started per thread

vars == <<objects, nextId, th, ops>>

\* ObjectTranslator::Invalid
Invalid == 0

ObjKind == {"Binder", "Handle", "Invalid"}
Flat(type, cookie) == [type |-> type, cookie |-> cookie]

\* The payloads a thread may hand to ProcessTransaction in direction dir.
Payloads(dir) ==
    LET cookies == IF dir = "Out" THEN Address ELSE 1..MaxId
        objs == {Flat("Binder", c) : c \in cookies} \cup {Flat("Handle", 0), Flat("Invalid", 0)}
    IN UNION {[1..n -> objs] : n \in 0..MaxLen}

Idle == [pc |-> "idle", dir |-> "Out", orig |-> <<>>, payload |-> <<>>, i |-> 1,
         status |-> "none"]

\* Seeded-bug variant of FirstObjectId: ids start at Invalid.
FirstObjectIdZero == 0

\* next_object_id_{1}
FirstObjectId == 1

TranslatorInit ==
    /\ objects = <<>>
    /\ nextId = FirstObjectId
    /\ th = [t \in Thread |-> Idle]
    /\ ops = [t \in Thread |-> 0]

-----------------------------------------------------------------------------
(* Pure parts                                                              *)

\* TranslateCookie: the address of id, or 0.
TranslateCookie(objs, id) == IF id \in DOMAIN objs THEN objs[id] ELSE 0

\* TranslateObject: an id mapped to address a, or Invalid.  objects_ is an
\* unordered_map, so which of several such ids comes first is unspecified.
TranslateObject(objs, a) ==
    IF \E id \in DOMAIN objs : objs[id] = a
    THEN CHOOSE id \in DOMAIN objs : objs[id] = a
    ELSE Invalid

-----------------------------------------------------------------------------
(* Threads                                                                 *)

\* A thread starts ProcessTransaction on a payload.  With no objects the
\* call returns OK at once (the GetNumObjectOffsets() == 0 early return).
StartTranslation(t) ==
    /\ th[t].pc = "idle"
    /\ ops[t] < MaxOps
    /\ \E dir \in {"In", "Out"} : \E p \in Payloads(dir) :
           th' = [th EXCEPT ![t] = [pc |-> IF p = <<>> THEN "idle" ELSE "scan",
                                    dir |-> dir, orig |-> p, payload |-> p, i |-> 1,
                                    status |-> IF p = <<>> THEN "OK" ELSE "none"]]
    /\ ops' = [ops EXCEPT ![t] = @ + 1]
    /\ UNCHANGED <<objects, nextId>>

\* Rewrite the current object's cookie and move to the next object; past
\* the last one the call returns OK.
Advance(r, cookie) ==
    [r EXCEPT !.payload[r.i].cookie = cookie, !.i = r.i + 1,
              !.pc = IF r.i = Len(r.payload) THEN "idle" ELSE "scan",
              !.status = IF r.i = Len(r.payload) THEN "OK" ELSE "none"]

Fail(r, status) == [r EXCEPT !.pc = "idle", !.status = status]

\* One iteration of ProcessTransaction's loop over the object offsets.
\* Going Out, the TranslateObject scan of TranslateOrAddObject: a hit
\* rewrites the cookie, a miss goes on to allocate an id (AddObject).
ProcessObject(t) ==
    LET r == th[t]
        o == r.payload[r.i]
    IN
    /\ r.pc = "scan"
    /\ th' = [th EXCEPT ![t] =
         CASE o.type = "Handle" -> Advance(r, o.cookie)
           [] o.type = "Invalid" -> Fail(r, "InvalidOperation")
           [] r.dir = "In" /\ o.cookie \notin DOMAIN objects -> Fail(r, "BadValue")
           [] r.dir = "In" -> Advance(r, objects[o.cookie])
           [] TranslateObject(objects, o.cookie) # Invalid ->
                Advance(r, TranslateObject(objects, o.cookie))
           [] OTHER -> [r EXCEPT !.pc = "add"]]
    /\ UNCHANGED <<objects, nextId, ops>>

\* Seeded-bug variant of AddObject: the id is read and written back
\* incremented as two operations, so two threads can get the same id.
AddObjectLostUpdate(t, id) ==
    LET r == th[t] IN
    /\ r.pc = "add"
    /\ objects' = IF id \in DOMAIN objects THEN objects
                  ELSE objects @@ (id :> r.payload[r.i].cookie)
    /\ nextId' = IF \E u \in Thread \ {t} : th[u].pc = "add" THEN nextId ELSE id + 1
    /\ th' = [th EXCEPT ![t] = Advance(r, id)]
    /\ UNCHANGED ops

\* The rest of TranslateOrAddObject after a miss: id = next_object_id_++
\* (atomic), objects_.insert({id, object}) (which keeps an existing
\* entry), and the cookie becomes id.
AddObject(t, id) ==
    LET r == th[t] IN
    /\ r.pc = "add"
    /\ objects' = IF id \in DOMAIN objects THEN objects
                  ELSE objects @@ (id :> r.payload[r.i].cookie)
    /\ nextId' = id + 1
    /\ th' = [th EXCEPT ![t] = Advance(r, id)]
    /\ UNCHANGED ops

TranslatorNext ==
    \E t \in Thread :
        \/ StartTranslation(t)
        \/ ProcessObject(t)
        \/ AddObject(t, nextId)

TranslatorSpec == TranslatorInit /\ [][TranslatorNext]_vars

-----------------------------------------------------------------------------
(* Properties                                                              *)

TranslatorTypeOK ==
    /\ nextId \in Nat \ {Invalid}
    /\ DOMAIN objects \subseteq Nat \ {Invalid}
    /\ \A id \in DOMAIN objects : objects[id] \in Address
    /\ \A t \in Thread : th[t].pc \in {"idle", "scan", "add"}
                         /\ ops[t] \in 0..MaxOps

\* A finished translation agrees with the table: every Binder that went
\* Out now carries an id that TranslateCookie maps back to its real
\* address, and every Binder that came In carries the address its id
\* names (translate_cookie(translate_or_add(a)) = a).  Broken if an id
\* is handed out twice or an insert is lost.
TranslationsAgree ==
    \A t \in Thread :
        th[t].pc = "idle" /\ th[t].status = "OK" =>
            \A i \in DOMAIN th[t].orig :
                th[t].orig[i].type = "Binder" =>
                    IF th[t].dir = "Out"
                    THEN TranslateCookie(objects, th[t].payload[i].cookie) = th[t].orig[i].cookie
                    ELSE th[t].payload[i].cookie = TranslateCookie(objects, th[t].orig[i].cookie)

=============================================================================
