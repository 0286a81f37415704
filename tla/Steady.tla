------------------------------- MODULE Steady -------------------------------
(***************************************************************************)
(* Sort keys that follow the rows' values with hysteresis                  *)
(* (ot-ui/src/steady.rs): a key moves only when the value has left a dead  *)
(* band around it, and not at all while the pointer holds the order.       *)
(*                                                                         *)
(* A basis is the column and arrangement keys were taken for.  The band is *)
(* max(abs, rel * key), with rel in percent; figures are natural numbers,  *)
(* the infinite ones of sample rows are left out.                          *)
(***************************************************************************)
EXTENDS Integers

CONSTANTS
    Abs,  \* the band's absolute width
    Rel   \* and its relative one, in percent of the key

ASSUME BandAssumption == Abs \in Nat /\ Rel \in 0..100

VARIABLES
    basis,   \* what the keys were taken for, or none
    keys,    \* of the rows that have one
    held,    \* the pointer is over the table
    frozen   \* history variable: the keys were last folded in while held

steadyVars == <<basis, keys, held, frozen>>

NoBasis == << >>

\* Band::width: whether a value is within the dead band of a key.
InBand(value, key) ==
    LET d == value - key IN
    \/ -Abs <= d /\ d <= Abs
    \/ -(Rel * key) <= 100 * d /\ 100 * d <= Rel * key

\* Mutant: keys follow their values while held, too.
KeyFollows(old, value, hold) == IF InBand(value, old) THEN old ELSE value

\* Mutant: a key follows its value up and never down.
KeyNeverFalls(old, value, hold) == IF hold \/ value <= old THEN old ELSE value

\* A key there is already.
KeyOf(old, value, hold) == IF hold \/ InBand(value, old) THEN old ELSE value

\* Steady::key.
Key(r, b, value) == IF basis = b /\ r \in DOMAIN keys THEN keys[r] ELSE value

SteadyInit == basis = NoBasis /\ keys = << >> /\ held = FALSE /\ frozen = FALSE

\* Mutant: rows that are gone keep their keys.
UpdateForgetsNothing(b, banded, value, hold) ==
    /\ basis' = b
    /\ keys' = IF ~banded THEN << >>
               ELSE [r \in DOMAIN value \cup DOMAIN keys |->
                        IF r \notin DOMAIN value THEN keys[r]
                        ELSE IF basis = b /\ r \in DOMAIN keys THEN KeyOf(keys[r], value[r], hold)
                        ELSE value[r]]
    /\ held' = hold
    /\ frozen' = hold

\* Steady::update: fold in the rows' current values, being held or not. Rows without
\* a value are forgotten, and columns without a band need no keys.
Update(b, banded, value, hold) ==
    /\ basis' = b
    /\ keys' = IF ~banded THEN << >>
               ELSE [r \in DOMAIN value |->
                        IF basis = b /\ r \in DOMAIN keys THEN KeyOf(keys[r], value[r], hold) ELSE value[r]]
    /\ held' = hold
    /\ frozen' = hold

\* Steady::set_held.
SetHeld(on) == held' = on /\ UNCHANGED <<basis, keys, frozen>>

\* How far the order of the keys may differ from that of the values they stand for.
InBandOfEachOther(k1, v1, k2, v2) == InBand(v1, k2) /\ InBand(v2, k1)
=============================================================================
