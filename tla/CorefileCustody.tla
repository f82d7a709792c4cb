--------------------------- MODULE CorefileCustody ---------------------------
(***************************************************************************)
(* What the connector promises to the owner of a Corefile: it touches the  *)
(* Corefile only while it holds its finalizer and after it has saved a     *)
(* version of it without blocks, lists only domains that the pods are      *)
(* given files for, leaves the owner's text alone, puts back what it saved *)
(* when it is deleted, and lets go only then.  How it learns of changes,   *)
(* which domains it lists, and its statuses are left open, and so are      *)
(* refused writes, retries, caches and restarts.                           *)
(***************************************************************************)
EXTENDS Naturals

CONSTANTS Domain, Plugins, CoreText

VARIABLES
  held,      \* there is a connector, and it has the operator's finalizer
  marked,    \* there is a connector, and it is under deletion
  corefile,  \* the Corefile: the owner's text, and the operator's blocks
  saved,     \* {} or {what the operator will put back}
  mounted    \* the domains whose zone files are mounted into the pods

custody == <<held, marked, corefile, saved, mounted>>

Plain == [text : CoreText, blocks : {{}}]

Init == /\ held = FALSE /\ marked = FALSE
        /\ corefile \in Plain
        /\ saved = {} /\ mounted = {}

(* The operator, from its first write of the connector to its last.        *)
Take == /\ ~held /\ ~marked
        /\ held' = TRUE
        /\ UNCHANGED <<marked, corefile, saved, mounted>>

Save == /\ held /\ saved = {} /\ corefile.blocks = {}
        /\ \E f \in Plain : saved' = {f}
        /\ UNCHANGED <<held, marked, corefile, mounted>>

Mount == /\ held
         /\ mounted' \in SUBSET Domain
         /\ UNCHANGED <<held, marked, corefile, saved>>

Serve == /\ held /\ saved # {}
         /\ \E ds \in SUBSET mounted, p \in Plugins :
              corefile' = [corefile EXCEPT !.blocks = ds \X {p}]
         /\ UNCHANGED <<held, marked, saved, mounted>>

(* The caches may still show a connector that is gone, and the one that    *)
(* follows it may wait for its finalizer.                                  *)
Restore == /\ held => marked
           /\ corefile' \in saved
           /\ UNCHANGED <<held, marked, saved, mounted>>

Release == /\ held /\ marked /\ corefile.blocks = {}
           /\ held' = FALSE /\ marked' = FALSE
           /\ UNCHANGED <<corefile, saved, mounted>>

(* Users delete the connector and edit the text.                           *)
Mark == /\ held /\ ~marked
        /\ marked' = TRUE
        /\ UNCHANGED <<held, corefile, saved, mounted>>

Edit == /\ \E t \in CoreText : corefile' = [corefile EXCEPT !.text = t]
        /\ UNCHANGED <<held, marked, saved, mounted>>

Next == Take \/ Save \/ Mount \/ Serve \/ Restore \/ Release \/ Mark \/ Edit

Spec == Init /\ [][Next]_custody

=============================================================================
