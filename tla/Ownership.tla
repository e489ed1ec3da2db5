----------------------------- MODULE Ownership -----------------------------
(***************************************************************************)
(* The plan validator VAL applies the actions of one happening together,   *)
(* so it first has to make sure that they do not interfere.  A fresh       *)
(* Ownership records, for every proposition and fluent the happening       *)
(* touches, who claimed it and what for (Ownership.cpp).  The claims are   *)
(* made one after the other, and the first one refused fails the plan.     *)
(*                                                                         *)
(* An entry of the record is [owner, kind].  The kinds E_PRE, E_PPRE and   *)
(* E_NPRE differ in the warnings they print only and are all "pre" here.   *)
(***************************************************************************)
EXTENDS Sequences, SequencesExt

CONSTANTS
    Props,      \* the ground propositions
    Fluents,    \* the ground numeric fluents
    Shared      \* the owner of what several actions claim (a null pointer)

Unclaimed == [owner |-> Shared, kind |-> "free"]

\* Nothing is claimed: the two maps of a new Ownership are empty.
NothingOwned == [x \in Props \cup Fluents |-> Unclaimed]

-----------------------------------------------------------------------------
(* One claim of a on one entry e: whether it is granted, and the entry then. *)

\* a requires what e is the entry of.  Preconditions share.
MarkOwnedPrecondition(e, a) == e.kind \in {"free", "pre"} \/ e.owner = a

Required(e, a) ==
    CASE e.kind = "free" -> [owner |-> a, kind |-> "pre"]
      [] e.kind = "pre" /\ e.owner # a -> [owner |-> Shared, kind |-> "pre"]
      [] OTHER -> e

\* Several actions may add one proposition; otherwise it has to be a's own.
OwnsForAdd(e, a) == e.kind \in {"free", "add"} \/ e.owner = a

OwnsForDel(e, a) == e.kind \in {"free", "del"} \/ e.owner = a

\* The kind of the first effect stays; an action that adds what it deletes is warned.
Affected(e, a, kind) ==
    IF e.kind \in {"free", "pre"} THEN [owner |-> a, kind |-> kind] ELSE e

Additive == {"increase", "decrease"}

\* Fault: every update of a fluent is taken for one that commutes.
AnyUpdateCommutes(e, a, op) == e.kind \in {"free", "add", "assignment"} \/ e.owner = a

\* Additive updates of several actions commute; no other updates do.
MarkOwnedEffectFE(e, a, op) ==
    \/ e.kind = "free"
    \/ e.kind = "pre" /\ e.owner = a
    \/ e.kind = "add" /\ op \in Additive

Updated(e, a, op) ==
    [owner |-> IF e.kind = "free" \/ e.owner = a THEN a ELSE Shared,
     kind |-> IF op \in Additive THEN "add" ELSE "assignment"]

-----------------------------------------------------------------------------
(* A claim is [by, require, add, del, upd]: what one action, or one          *)
(* conditional effect of it, requires and changes, in the order of           *)
(* Action::handleEffects.  An update is [fluent, op, by], and its right-hand *)
(* side "by" is a number or a fluent.                                        *)

Reads(c) == {u.by : u \in c.upd} \cap Fluents

\* The updates of the entry x in the claim c (at most one).
UpdatesOf(c, x) == {u \in c.upd : u.fluent = x}

\* The entry of x after c's requirements, its adds and its deletes.
AfterRequire(c, e, x) == IF x \in c.require \cup Reads(c) THEN Required(e, c.by) ELSE e

AfterAdd(c, e, x) ==
    IF x \in c.add THEN Affected(AfterRequire(c, e, x), c.by, "add")
    ELSE AfterRequire(c, e, x)

AfterDel(c, e, x) ==
    IF x \in c.del THEN Affected(AfterAdd(c, e, x), c.by, "del") ELSE AfterAdd(c, e, x)

Claimed(own, c) ==
    [x \in DOMAIN own |->
        IF UpdatesOf(c, x) = {} THEN AfterDel(c, own[x], x)
        ELSE Updated(AfterDel(c, own[x], x), c.by, (CHOOSE u \in UpdatesOf(c, x) : TRUE).op)]

Granted(own, c) ==
    /\ \A x \in c.require \cup Reads(c) : MarkOwnedPrecondition(own[x], c.by)
    /\ \A p \in c.add : OwnsForAdd(AfterRequire(c, own[p], p), c.by)
    /\ \A p \in c.del : OwnsForDel(AfterAdd(c, own[p], p), c.by)
    /\ \A u \in c.upd :
          MarkOwnedEffectFE(AfterDel(c, own[u.fluent], u.fluent), c.by, u.op)

\* The ownership after each of the claims, from own on.
Ownerships(own, claims) ==
    LET after[i \in 0..Len(claims)] ==
            IF i = 0 THEN own ELSE Claimed(after[i - 1], claims[i])
    IN  after

\* Preconditions are marked first, for all the actions of the happening.
MarkAll(own, claims) == Ownerships(own, claims)[Len(claims)]

\* Whether all claims are granted, each after the ones before it.
AllGranted(own, claims) ==
    \A i \in 1..Len(claims) : Granted(Ownerships(own, claims)[i - 1], claims[i])
=============================================================================
