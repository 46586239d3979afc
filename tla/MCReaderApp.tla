---------------------------- MODULE MCReaderApp ----------------------------
(***************************************************************************)
(* Instances of ReaderApp for TLC.                                          *)
(***************************************************************************)
EXTENDS ReaderApp

AllButtons ==
    {"refresh", "toggle", "connect", "disconnect", "partition", "rpmb", "clock", "baud",
     "width", "cancel", "controller_status", "card_status", "reinit", "raw_cmd",
     "read", "open_hex", "write", "erase", "secure_erase", "write_extcsd", "cache_flush",
     "verify", "dump", "restore", "ext_csd",
     "partitions", "dump_partition", "browse", "load_fs", "navigate", "open_file",
     "overwrite", "create", "create_empty",
     "open_ext4_hex", "hex_load", "hex_edit", "hex_write_back", "hex_discard", "hex_save"}

\* Of these, what is about the contents of the hex editor.
HexButtons ==
    {"connect", "read", "open_hex", "hex_edit", "hex_write_back", "hex_save", "hex_discard"}

\* What moves contents through the editor back to the card.
RoundTrip == {"connect", "read", "open_hex", "hex_edit", "hex_write_back"}

\* A file that is opened, and overwritten or shown in the editor.
Ext4Buttons == {"connect", "load_fs", "open_file", "overwrite", "open_ext4_hex"}

\* Three clicks on anything while nothing fails; five in the editor, with a failure;
\* seven on the way through the editor, enough to open other sectors while the dialog
\* asks; four on the way to a file that is overwritten; five on a connection that is
\* dropped while a dialog asks, and taken up again.
EveryUser ==
    {[buttons |-> AllButtons, profiles |-> {"Fast", "Safe"}, clicks |-> 3, faults |-> 0],
     [buttons |-> HexButtons, profiles |-> {"Fast"}, clicks |-> 5, faults |-> 1],
     [buttons |-> RoundTrip, profiles |-> {"Safe"}, clicks |-> 7, faults |-> 0],
     [buttons |-> Ext4Buttons, profiles |-> {"Fast"}, clicks |-> 4, faults |-> 0],
     [buttons |-> {"connect", "baud", "rpmb", "disconnect"}, profiles |-> {"Safe"},
      clicks |-> 5, faults |-> 0]}

\* The cache turned on, another partition, and four data lines.
CacheBootWidth == [index : {33, 179, 183}, value : {1}]

HexUser == {[buttons |-> HexButtons \union {"hex_load"}, profiles |-> {"Fast"}, clicks |-> 6, faults |-> 0]}
=============================================================================
