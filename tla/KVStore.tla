------------------------------- MODULE KVStore -------------------------------
(***************************************************************************)
(* What the engine promises its callers (the StorageEngine trait): a map   *)
(* from keys to the last write.  A write takes effect key by key between   *)
(* its call and its return; a crash keeps every write that has taken       *)
(* effect and may complete keys of the writes it interrupts.               *)
(***************************************************************************)
CONSTANTS Keys, Ops, KeysOf, None

VARIABLES
  kv,       \* key -> the write a get returns, or None
  status,   \* operation -> where its call is
  applied   \* operation -> the keys on which it has taken effect

vars == <<kv, status, applied>>

Init ==
  /\ kv = [k \in Keys |-> None]
  /\ status = [o \in Ops |-> "new"]
  /\ applied = [o \in Ops |-> {}]

Call(o) ==
  /\ status[o] = "new"
  /\ status' = [status EXCEPT ![o] = "running"]
  /\ UNCHANGED <<kv, applied>>

TakeEffect(o, k) ==
  /\ status[o] = "running" /\ k \in KeysOf[o] \ applied[o]
  /\ kv' = [kv EXCEPT ![k] = o]
  /\ applied' = [applied EXCEPT ![o] = @ \cup {k}]
  /\ UNCHANGED status

ReturnOk(o) ==
  /\ status[o] = "running" /\ applied[o] = KeysOf[o]
  /\ status' = [status EXCEPT ![o] = "ok"]
  /\ UNCHANGED <<kv, applied>>

Interrupted(k) == {o \in Ops : status[o] = "running" /\ k \in KeysOf[o]}

Crash ==
  /\ status' = [o \in Ops |-> IF status[o] = "running" THEN "lost"
                              ELSE status[o]]
  /\ applied' = [o \in Ops |-> IF status[o] = "running" THEN {}
                               ELSE applied[o]]
  /\ kv' \in [Keys -> Ops \cup {None}]
  /\ \A k \in Keys : kv'[k] \in {kv[k]} \cup Interrupted(k)

Next ==
  \/ \E o \in Ops : Call(o) \/ ReturnOk(o) \/ (\E k \in Keys : TakeEffect(o, k))
  \/ Crash

Spec == Init /\ [][Next]_vars
=============================================================================
