----------------------------- MODULE CrashStore -----------------------------
(***************************************************************************)
(* What a store kept in memory and saved to a file promises.               *)
(*                                                                         *)
(* `live` is the image readers see, `durable` the image a start finds.     *)
(* A durable image is always one that was live when it was saved: it is    *)
(* never partial, never mixed from two images and never an older one that  *)
(* comes back.  A start shows exactly the durable image; only a store that *)
(* has nothing durable is given its first contents.                        *)
(***************************************************************************)

CONSTANTS Image,     \* the images the store can hold
          Empty      \* the one that holds nothing

VARIABLES running, live, durable

vars == <<running, live, durable>>

Init == /\ running = FALSE
        /\ durable \in Image
        /\ live = durable

(* Memory changes first. *)
Change == /\ running
          /\ live' \in Image
          /\ UNCHANGED <<running, durable>>

(* The whole image of memory becomes durable, in one step. *)
Save == /\ running
        /\ durable' = live
        /\ UNCHANGED <<running, live>>

(* What was not saved is forgotten. *)
Stop == /\ running
        /\ running' = FALSE
        /\ live' = durable
        /\ UNCHANGED durable

Start == /\ ~running
         /\ running' = TRUE
         /\ \/ live' = durable
            \/ durable = Empty /\ live' \in Image
         /\ UNCHANGED durable

Next == Change \/ Save \/ Stop \/ Start

Spec == Init /\ [][Next]_vars
=============================================================================
