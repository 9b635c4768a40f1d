---------------------------- MODULE FileDelivery ----------------------------
(***************************************************************************)
(* What file distribution promises a machine that takes part: at a path    *)
(* there is only ever a complete copy of a file that is on offer for that  *)
(* path.  A copy appears, or replaces another, in one step; blocks,        *)
(* datagrams, crashes and half-written files are not to be seen.           *)
(***************************************************************************)
CONSTANTS
  Machines,   \* where copies are installed
  Offers,     \* pairs <<f, p>>: file f is on offer for path p
  Copy(_)     \* Copy(f): a complete copy of f

VARIABLE copies  \* copies[c][p]: the copy at path p of c, for the paths that have one

NoCopies == [p \in {} |-> p]

DeliveryInit == copies = [c \in Machines |-> NoCopies]

Deliver(c, f, p) ==
  /\ <<f, p>> \in Offers
  /\ copies' = [copies EXCEPT ![c] =
                  [q \in DOMAIN @ \cup {p} |-> IF q = p THEN Copy(f) ELSE @[q]]]

DeliveryNext == \E c \in Machines : \E o \in Offers : Deliver(c, o[1], o[2])

DeliverySpec == DeliveryInit /\ [][DeliveryNext]_copies
=============================================================================
