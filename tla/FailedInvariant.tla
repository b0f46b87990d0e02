--------------------------- MODULE FailedInvariant ---------------------------
(***************************************************************************)
(* The inductive invariant of FailedInputs, in named parts: what requests  *)
(* and steps hold, which blocks are shared, in which order the worker will *)
(* write and read them, and what may come of KV that is wrong.             *)
(***************************************************************************)
EXTENDS FailedInputs

(* The worker's work in flight: e = <<k, r>> is its computing for request r *)
(* in step k, and it computes in this order.                                *)
Pending == {e \in (ran + 1 .. Len(steps)) \X Req : e[2] \in DOMAIN steps[e[1]].work}
Work(e) == steps[e[1]].work[e[2]]
Precedes(e, f) == e[1] < f[1] \/ (e[1] = f[1] /\ e[2] < f[2])
Now == <<0, 0>>

Writes(w) == {w.table[i] : i \in {j \in DOMAIN w.table : j * BlockSize > w.from}}
Reads(w) == {w.table[i] : i \in {j \in DOMAIN w.table : (j - 1) * BlockSize < w.from}}

(* A request can reach b: it holds it, or finds it in the prefix cache.     *)
Held(b) == hash[b] # 0 \/ \E r \in Req : b \in ToSet(table[r])

-----------------------------------------------------------------------------
(* Only requests that wait or run hold blocks, as many as they need, each   *)
(* once.                                                                    *)
RequestOK ==
    \A r \in Req :
        /\ status[r] = "waiting" => computed[r] = 0
        /\ status[r] = "running" => computed[r] \in 1 .. prompt[r]
        /\ Len(table[r]) = IF Live(r) THEN BlocksOf(computed[r]) ELSE 0
        /\ \A i, j \in DOMAIN table[r] : table[r][i] = table[r][j] => i = j

(* The token a live request has computed up to before its first step after  *)
(* the p-th in flight.                                                      *)
StartsAt(r, p, t) ==
    \/ /\ \A k \in DOMAIN steps : r \in DOMAIN steps[k].work => k <= p
       /\ t = computed[r]
    \/ \E k \in DOMAIN steps :
        /\ k > p /\ r \in DOMAIN steps[k].work /\ t = steps[k].work[r].from
        /\ \A j \in DOMAIN steps : r \in DOMAIN steps[j].work => j <= p \/ k <= j

(* A step computes at least a token of each of its requests, in blocks the  *)
(* request still holds while it lives.                                      *)
WorkOK(k, r) ==
    LET w == steps[k].work[r]
    IN  /\ w.from \in 0 .. w.to - 1 /\ w.to \in 0 .. computed[r]
        /\ w.table \in Seq(Blocks) /\ Len(w.table) = BlocksOf(w.to)
        /\ status[r] # "waiting"
        /\ Live(r) => \A i \in DOMAIN w.table : i \in DOMAIN table[r] /\ w.table[i] = table[r][i]
        /\ Live(r) => StartsAt(r, k, w.to)
        /\ \A j \in 1 .. k - 1 : r \in DOMAIN steps[j].work => steps[j].work[r].to <= w.from
        /\ steps[k].causes[r] \subseteq Req \cup {-1}

StepsOK ==
    /\ steps \in Seq([work : {steps[k].work : k \in DOMAIN steps}, failed : SUBSET Req,
                      causes : {steps[k].causes : k \in DOMAIN steps}])
    /\ \A k \in DOMAIN steps :
        /\ steps[k].failed \subseteq DOMAIN steps[k].work /\ DOMAIN steps[k].work \subseteq Req
        /\ DOMAIN steps[k].causes = DOMAIN steps[k].work
        /\ \A r \in DOMAIN steps[k].work : WorkOK(k, r)
    /\ \A r \in Req : Live(r) => StartsAt(r, 0, computed[r] - flying[r])

(* Nobody else holds or finds a block its request has still to fill.        *)
SharedOK ==
    \A r \in Req : \A i \in DOMAIN table[r] : i * BlockSize > computed[r] =>
        /\ hash[table[r][i]] = 0
        /\ \A q \in Req \ {r} : table[r][i] \notin ToSet(table[q])

(* What another request writes into a block of a live request comes before  *)
(* that request's own work.                                                 *)
OrderOK ==
    \A e, f \in Pending :
        /\ Live(e[2]) /\ f[2] # e[2]
        /\ ToSet(Work(e).table) \cap Writes(Work(f)) # {}
        => Precedes(f, e)

-----------------------------------------------------------------------------
(* What b holds after e never reaches a live request, E being the work to   *)
(* come: whoever can reach b, or reads it, finds it written again.          *)
Dropped(E, b, e) ==
    /\ Held(b) => \E f \in E : Precedes(e, f) /\ b \in Writes(Work(f))
    /\ \A g \in E : Live(g[2]) /\ b \in Reads(Work(g)) =>
        \E f \in E : Precedes(e, f) /\ Precedes(f, g) /\ b \in Writes(Work(f))

(* KV that is wrong since c's inputs failed: the failure is yet to be       *)
(* handled, in one of the first k steps, and will find c gone or sweep b;   *)
(* or it has been handled when c was gone,                                  *)
Excused(c, b, k) ==
    \/ c \in missed
    \/ \E j \in 1 .. k : /\ c \in steps[j].failed
                         /\ Live(c) => b \in BlocksFrom(c, steps[j].work[c].from)

(* or b has been swept, and so has all that c's steps in flight will write. *)
Swept(E, c, b) ==
    /\ status[c] = "error" /\ Dropped(E, b, Now)
    /\ \A e \in E : e[2] = c => \A d \in Writes(Work(e)) : Dropped(E, d, e)

CauseOK(E, wrong) ==
    \A b \in Blocks : wrong[b] \in Req => Excused(wrong[b], b, ran) \/ Swept(E, wrong[b], b)

(* The same of what a live request's steps in flight were computed from.    *)
CausesOK ==
    \A k \in 1 .. ran : \A r \in DOMAIN steps[k].work : Live(r) =>
        \A c \in steps[k].causes[r] \cap Req : \E b \in ToSet(table[r]) : Excused(c, b, k)

FailedInv ==
    /\ TypeOK /\ RequestOK /\ StepsOK /\ SharedOK /\ OrderOK
    /\ CauseOK(Pending, cause) /\ CausesOK /\ SweptNeverServed
=============================================================================
