----------------------------- MODULE SectorDisk -----------------------------
(***************************************************************************)
(* What the disk layer (disk_read and disk_write of diskio.c) promises to  *)
(* FatFs: an array of sectors.  A read that succeeds returns the sectors   *)
(* asked for, a write changes only the sectors asked for and only to the   *)
(* data given, and nothing changes once a request has succeeded.  After a  *)
(* failure, or a reset of the 68000, the write that was under way may      *)
(* still land.                                                             *)
(*                                                                         *)
(* It promises no more: an answer RES_OK to a write does not mean that     *)
(* every sector was changed.                                               *)
(***************************************************************************)
EXTENDS Naturals, Sequences

CONSTANT LbaMod  \* addresses have 28 bits

VARIABLES
  card,   \* the sectors
  req,    \* the request being served
  reply,  \* its answer, "none" before
  got,    \* the sectors read
  open    \* the write that may still land, or a request of another kind

vars == <<card, req, reply, got, open>>

At(first, i) == (first + i) % LbaMod

Init == reply = "none" /\ open.op # "write"

Request ==
  /\ reply' = "none"
  /\ open' = IF req'.op = "write" THEN req' ELSE open
  /\ UNCHANGED card

\* A write made with the bus in the wrong width stores something else.
Land ==
  /\ open.op = "write"
  /\ \E i \in 0 .. open.count - 1 :
       LET a == At(open.first, i)
       IN /\ a \in DOMAIN card
          /\ card' = [card EXCEPT ![a] = card'[a]]
          /\ open.exact => card'[a] = open.data[i + 1]
  /\ UNCHANGED <<req, reply, got, open>>

Succeed ==
  /\ reply = "none" /\ reply' = "ok"
  /\ req.op = "read" =>
       /\ Len(got') = req.count
       /\ \A i \in 0 .. req.count - 1 :
            /\ At(req.first, i) \in DOMAIN card
            /\ got'[i + 1] = card[At(req.first, i)]
  /\ open'.op # "write"
  /\ UNCHANGED <<card, req>>

Fail ==
  /\ reply' # "ok"
  /\ UNCHANGED <<card, req, open>>

Next == Request \/ Land \/ Succeed \/ Fail

Spec == Init /\ [][Next]_vars
=============================================================================
