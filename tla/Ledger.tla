-------------------------------- MODULE Ledger --------------------------------
(* What a migration resource promises, without lists, texts, URLs and plans: a  *)
(* ledger of what is in effect, kept in another place than the effects, and     *)
(* changed only between two moments at which the two agree. Where a change is   *)
(* abandoned, the ledger is doubted only for what really differs.               *)

CONSTANT Entry \* what can be in effect

VARIABLES
    ledger, \* the entries on record
    real,   \* the entries in effect
    open,   \* a change is under way
    doubt   \* in what the ledger may be wrong: see Doubts

ledgerVars == <<ledger, real, open, doubt>>

(* missing: an entry on record may not be in effect                             *)
(* extra:   an entry in effect may not be on record                             *)
Doubts == {"missing", "extra"}

Agreement ==
    /\ "missing" \notin doubt => ledger \subseteq real
    /\ "extra" \notin doubt => real \subseteq ledger

LedgerInit == ledger = {} /\ real = {} /\ open = FALSE /\ doubt = {}

(* What is on record stays in effect and what is not does not appear, but for   *)
(* the one entry that the change takes up now.                                  *)
Touch ==
    \/ UNCHANGED real
    \/ \E e \in Entry \ ledger : real' = real \cup {e}
    \/ \E e \in Entry : (e \in ledger \/ "extra" \in doubt) /\ real' = real \ {e}

(* A change begins. It may turn to another place with another ledger, which     *)
(* nobody has compared with what is in effect there.                            *)
Begin ==
    /\ ~open /\ open'
    /\ doubt \subseteq doubt' /\ UNCHANGED real
    /\ ledger' # ledger => doubt' = Doubts

Proceed ==
    /\ open /\ Touch
    /\ UNCHANGED <<ledger, open, doubt>>

(* The new ledger is what is in effect.                                         *)
Commit ==
    /\ open /\ ~open'
    /\ Agreement'
    /\ UNCHANGED <<real, doubt>>

(* The ledger stays, and comes to be doubted only where it is wrong.            *)
Abandon ==
    /\ open /\ ~open' /\ Touch
    /\ UNCHANGED ledger /\ doubt \subseteq doubt'
    /\ Agreement'
    /\ "missing" \in doubt' \ doubt => ~(ledger \subseteq real')
    /\ "extra" \in doubt' \ doubt => ledger # real'

(* A new ledger is taken down although the change has failed.                   *)
Forsake ==
    /\ open /\ ~open' /\ Touch
    /\ doubt' = Doubts

LedgerNext == Begin \/ Proceed \/ Commit \/ Abandon \/ Forsake

LedgerSpec == LedgerInit /\ [][LedgerNext]_ledgerVars
===============================================================================
