-------------------------------- MODULE Disk --------------------------------
(***************************************************************************)
(* What the block drivers promise the code above them: a disk is an array   *)
(* of bytes.  A read returns the bytes as they are when they are            *)
(* transferred, a write changes exactly the bytes it names, a request fails *)
(* at the end of the disk, and a flush that reports success has given       *)
(* everything to the drive.  The caches of the drivers are not mentioned;   *)
(* BlockCache implements this module.                                       *)
(***************************************************************************)
EXTENDS Integers, Sequences

CONSTANTS
    Drives,       \* the disks
    Drivers,      \* the drivers: each serves one request at a time
    DriverOf,     \* DriverOf[d]: the driver of disk d
    NBytes,       \* the size of a disk
    BlockSize,    \* the unit a driver caches
    Data,         \* values of a byte
    Spoiled,      \* disks on which a failed request may damage a block
    NoReq

VARIABLES
    content,      \* content[d][a]: the byte a user finds at address a of d
    medium,       \* medium[d][a]: the byte the drive has been given, and would return
    req,          \* req[v]: the request driver v is serving, or NoReq
    ret,          \* ret[v]: how driver v's last request ended, "none" while one is served
    damaged       \* the disks on which a failed request may have damaged a block

vars == <<content, medium, req, ret, damaged>>

Addrs == 0 .. NBytes - 1

Requests ==
    [op : {"read", "write", "flush"}, drive : Drives, loc : Nat, count : Nat,
     progress : Nat, buf : Seq(Data)]

Init ==
    /\ content \in [Drives -> [Addrs -> Data]]
    /\ medium = content
    /\ req = [v \in Drivers |-> NoReq]
    /\ ret = [v \in Drivers |-> "none"]
    /\ damaged = {}

(* Bytes reach the drive whenever it suits the driver. *)
Destage ==
    /\ medium' \in [Drives -> [Addrs -> Data]]
    /\ \A d \in Drives, a \in Addrs : medium'[d][a] \in {medium[d][a], content[d][a]}

Submit(v) ==
    /\ req[v] = NoReq
    /\ LET r == req'[v]
       IN  /\ r \in Requests
           /\ DriverOf[r.drive] = v /\ r.progress = 0
           /\ Len(r.buf) = IF r.op = "write" THEN r.count ELSE 0
           /\ req' = [req EXCEPT ![v] = r]
    /\ ret' = [ret EXCEPT ![v] = "none"]
    /\ UNCHANGED <<content, medium, damaged>>

(* Some of the bytes of a read or a write, all of them on the disk. *)
Transfer(v) ==
    LET r == req[v]
        at == r.loc + r.progress
    IN  /\ r # NoReq /\ r.op # "flush"
        /\ \E n \in 1 .. r.count - r.progress :
              LET moved == at .. at + n - 1
              IN  /\ moved \subseteq Addrs
                  /\ req' = [req EXCEPT
                               ![v].progress = @ + n,
                               ![v].buf = IF r.op = "read"
                                          THEN @ \o [i \in 1 .. n |-> content[r.drive][at + i - 1]]
                                          ELSE @]
                  /\ content' = IF r.op = "read" THEN content
                                ELSE [content EXCEPT ![r.drive] =
                                        [a \in Addrs |-> IF a \in moved THEN r.buf[a - r.loc + 1] ELSE @[a]]]
        /\ Destage
        /\ UNCHANGED <<ret, damaged>>

(* The request ends well: everything is transferred or, unless an earlier
   failure damaged the disk, given to the drive.                             *)
Return(v) ==
    LET r == req[v]
    IN  /\ r # NoReq
        /\ r.op # "flush" => r.progress = r.count
        /\ r.op = "flush" /\ r.drive \notin damaged => medium[r.drive] = content[r.drive]
        /\ req' = [req EXCEPT ![v] = NoReq]
        /\ ret' = [ret EXCEPT ![v] = "done"]
        /\ UNCHANGED <<content, medium, damaged>>

(* The request fails with -1.  Nothing is taken back, and nothing else is
   harmed, except on the drives in Spoiled: there one block may be damaged.  *)
Fail(v) ==
    LET r == req[v]
    IN  /\ r # NoReq
        /\ req' = [req EXCEPT ![v] = NoReq]
        /\ ret' = [ret EXCEPT ![v] = "failed"]
        /\ damaged' \in {damaged, damaged \cup (Spoiled \cap {r.drive})}
        /\ \A d \in Drives :
              \E b \in 0 .. NBytes - 1 :
                 \A a \in Addrs : \/ content'[d][a] = content[d][a]
                                  \/ d = r.drive /\ d \in damaged' /\ a \div BlockSize = b
        /\ content' \in [Drives -> [Addrs -> Data]]
        /\ Destage

Next ==
    \/ Destage /\ UNCHANGED <<content, req, ret, damaged>>
    \/ \E v \in Drivers : Submit(v) \/ Transfer(v) \/ Return(v) \/ Fail(v)

Spec == Init /\ [][Next]_vars
=============================================================================
