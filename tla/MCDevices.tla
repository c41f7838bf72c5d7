------------------------------ MODULE MCDevices ------------------------------
(* Instances of Devices for TLC. *)
EXTENDS Devices, TLC

CONSTANTS p1, p2

(* Files that have a position; a terminal of one process that types lines and
   changes the mode; one that processes share, read and are killed in; one
   that is opened twice; and every call on a terminal nobody types at.       *)
SetupsUsed ==
    {[nodes |-> {"root", "disk"}, opens |-> 2, keys |-> 0,
      calls |-> {"read", "write", "lseek", "readdir", "isatty", "dup"}],
     [nodes |-> {"tty"}, opens |-> 1, keys |-> 4, calls |-> {"read", "tcsetattr"}],
     [nodes |-> {"tty"}, opens |-> 1, keys |-> 2, calls |-> {"read", "tcgetattr", "dup", "kill"}],
     [nodes |-> {"tty"}, opens |-> 2, keys |-> 2, calls |-> {"read", "kill"}],
     [nodes |-> {"tty"}, opens |-> 2, keys |-> 0, calls |-> Calls]}

Symmetry == Permutations({p1, p2})
=============================================================================
