--------------------------- MODULE MCMountedDisk ---------------------------
(* One disk with one request of every kind: a read of two exchanges, a     *)
(* write of one, a pass-through request that fits the buffer and one that  *)
(* does not, one answered locally, and the dummy request of Disconnect.    *)
EXTENDS MountedDisk

CONSTANTS rd, wr, io, big, loc, bye

MCRequests == {rd, wr, io, big, loc, bye}

MCKind == [r \in MCRequests |->
  CASE r = rd -> "read" [] r = wr -> "write" [] r \in {io, big} -> "ioctl"
    [] r = loc -> "local" [] r = bye -> "disconnect"]

MCLength == [r \in MCRequests |->
  CASE r \in {rd, big} -> 3 [] r = bye -> 0 [] OTHER -> 1]
=============================================================================
