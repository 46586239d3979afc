---------------------------- MODULE MCProgrammer ----------------------------
(***************************************************************************)
(* Instances of Programmer for TLC: users.                                  *)
(***************************************************************************)
EXTENDS Programmer

Any == {"info", "refresh", "toggle", "cancel", "connect", "disconnect", "table", "browse",
        "load_fs", "navigate", "result", "overwrite", "create", "open_hex", "secure_erase",
        "write", "partition", "baud", "reinit"}

\* Everybody, with and without a fault; one who erases over two connections; one who
\* connects while a confirmed command is at work; one who changes the card by hand; one
\* with an FT245; one whose erases break off and are refused.
EveryUser ==
    {[buttons |-> Any, profiles |-> {"Fast"}, ports |-> {FALSE}, clicks |-> 4, faults |-> 0],
     [buttons |-> Any, profiles |-> {"Fast"}, ports |-> {FALSE}, clicks |-> 3, faults |-> 1],
     [buttons |-> {"info", "connect", "disconnect", "secure_erase"},
      profiles |-> {"Safe"}, ports |-> {FALSE}, clicks |-> 6, faults |-> 0],
     [buttons |-> {"connect", "disconnect", "partition"},
      profiles |-> {"Safe"}, ports |-> {FALSE}, clicks |-> 6, faults |-> 0],
     [buttons |-> {"connect", "raw", "extcsd", "partition", "reinit"},
      profiles |-> {"Safe"}, ports |-> {FALSE}, clicks |-> 3, faults |-> 1],
     [buttons |-> {"connect", "disconnect", "toggle", "baud", "clock", "width"},
      profiles |-> {"Fast"}, ports |-> BOOLEAN, clicks |-> 4, faults |-> 0],
     [buttons |-> {"connect", "secure_erase"}, profiles |-> {"Safe"}, ports |-> {FALSE},
      clicks |-> 3, faults |-> 2]}
=============================================================================
