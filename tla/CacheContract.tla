---------------------------- MODULE CacheContract ---------------------------
(***************************************************************************)
(* What every cache backend promises of its writers and readers, whatever  *)
(* it stores objects in (the Cache interface of internal/cache/api.go):    *)
(* an object is readable only once its writer was closed, a discarded      *)
(* write never is, and a reader gets the headers and the body of one       *)
(* write.  Objects may vanish at any time, and may come back.              *)
(***************************************************************************)
CONSTANTS Key, Write, None

VARIABLES
    phase,      \* [Write -> "open", "closed" or "discarded"]
    visible,    \* [Key -> the write a reader would get, or None]
    reply       \* the write the last Open returned, or None

vars == <<phase, visible, reply>>

Init ==
    /\ phase = [w \in Write |-> "open"]
    /\ visible = [k \in Key |-> None]
    /\ reply = None

\* A write is closed once, or discarded; closing one may still fail.
PhaseStep(w) ==
    \/ phase'[w] = phase[w]
    \/ phase[w] = "open" /\ phase'[w] \in {"closed", "discarded"}
    \/ phase[w] = "closed" /\ phase'[w] = "discarded"

\* What is readable after a step is a closed write, and not a discarded one.
Readable(k) == visible'[k] = None \/ phase'[visible'[k]] = "closed"

\* Open answers with a write that is closed, or finds nothing.
Answer == reply' \in {reply, None} \cup {w \in Write : phase[w] = "closed"}

Next ==
    /\ DOMAIN phase' = Write /\ \A w \in Write : PhaseStep(w)
    /\ DOMAIN visible' = Key /\ \A k \in Key : Readable(k)
    /\ Answer

Spec == Init /\ [][Next]_vars
=============================================================================
