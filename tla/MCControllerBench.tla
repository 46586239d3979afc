-------------------------- MODULE MCControllerBench --------------------------
(* Requests for model checking the controller. *)
EXTENDS ControllerBench

Req(id, lba, count) ==
    [id |-> id, lba |-> lba, count |-> count, busy |-> FALSE, resp |-> TRUE, late |-> FALSE]

\* Reads and writes of one and several blocks, one across the end of the addresses.
TransferRequests ==
    {Req("READ_SECTOR", 5, 1), Req("READ_SECTOR", 6, 3), Req("WRITE_SECTOR", 2, 1),
     Req("WRITE_SECTOR", 4, 2), Req("WRITE_SECTOR", 3, 5), Req("READ_SECTOR", 0, 0),
     Req("GET_EXT_CSD", 0, 0)}

\* RPMB mode, with CMD23 in front of single-block transfers, data that may come
\* after its write command or not at all, and a request of every other kind.
RpmbRequests ==
    {Req("SET_RPMB_MODE", 1, 0), Req("SET_RPMB_MODE", 0, 0), Req("READ_SECTOR", 0, 1),
     Req("READ_SECTOR", 5, 2), Req("WRITE_SECTOR", 0, 1), Req("WRITE_SECTOR", 4, 2),
     [Req("WRITE_SECTOR", 4, 1) EXCEPT !.late = TRUE], Req("GET_EXT_CSD", 0, 0),
     Req("SET_BUS_WIDTH", 1, 0), Req("ERASE", 6, 3), Req("GET_CARD_STATUS", 0, 0),
     Req("REINIT", 0, 0), [Req("SEND_RAW", 0, 6) EXCEPT !.busy = TRUE]}

\* A request of every kind that moves no blocks, and transfers to see whether
\* blocks still pass.
ControlRequests ==
    {Req("SET_BUS_WIDTH", 1, 0), Req("SET_BUS_WIDTH", 0, 0), Req("SET_PARTITION", 1, 0),
     Req("WRITE_EXT_CSD", 33 * 256 + 1, 0), Req("SECURE_ERASE", 6, 3),
     Req("GET_CARD_STATUS", 0, 0), Req("REINIT", 0, 0), Req("SET_CLK_DIV", 7, 0),
     Req("UNKNOWN", 0, 0), Req("WRITE_SECTOR", 4, 2), Req("READ_SECTOR", 1, 1),
     [Req("SEND_RAW", 0, 6) EXCEPT !.busy = TRUE],
     [Req("SEND_RAW", 0, 0) EXCEPT !.resp = FALSE]}
=============================================================================
