---------------------------- MODULE Collections ----------------------------
(***************************************************************************)
(* What the collections promise their editors, without the documents and   *)
(* pointers they are made of: a collection is a table of assets, and what  *)
(* is published changes one entry of one table.  The exception is counted: *)
(* a publication made from a table that has been replaced meanwhile, or    *)
(* that could not be read, replaces the whole table.                       *)
(***************************************************************************)
EXTENDS Naturals

CONSTANTS
    Tokens,     \* collection tokens
    Assets      \* asset ids, the keys of a collection

VARIABLES
    live,       \* the tokens that exist
    entries,    \* entries[t][a]: the content t lists for a, 0 for none
    disturbed   \* disturbed[t]: how often t's table was replaced blindly

NoAssets == [a \in Assets |-> 0]

Init ==
    /\ live \subseteq Tokens
    /\ entries \in [Tokens -> [Assets -> Nat]]
    /\ \A t \in Tokens \ live : entries[t] = NoAssets
    /\ disturbed = [t \in Tokens |-> 0]

SameBut(old, new, k, Keys) == \A x \in Keys \ {k} : new[x] = old[x]

\* A new collection holds the one asset it was published for.
Create(t, a) ==
    /\ t \notin live
    /\ live' = live \cup {t}
    /\ SameBut(entries, entries', t, Tokens)
    /\ SameBut(NoAssets, entries'[t], a, Assets)
    /\ UNCHANGED disturbed

\* One asset is added, replaced or removed.
Change(t, a) ==
    /\ t \in live
    /\ SameBut(entries, entries', t, Tokens)
    /\ SameBut(entries[t], entries'[t], a, Assets)
    /\ UNCHANGED <<live, disturbed>>

Burn(t) ==
    /\ t \in live
    /\ live' = live \ {t}
    /\ SameBut(entries, entries', t, Tokens)
    /\ entries'[t] = NoAssets
    /\ UNCHANGED disturbed

Disturb(t) ==
    /\ t \in live
    /\ disturbed' = [disturbed EXCEPT ![t] = @ + 1]
    /\ SameBut(entries, entries', t, Tokens)
    /\ UNCHANGED live

Next ==
    \E t \in Tokens :
        \/ \E a \in Assets : Create(t, a) \/ Change(t, a)
        \/ Burn(t)
        \/ Disturb(t)

Spec == Init /\ [][Next]_<<live, entries, disturbed>>

=============================================================================
