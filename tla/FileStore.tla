------------------------------ MODULE FileStore ------------------------------
(***************************************************************************)
(* What "Create" and "Overwrite" of the ext4 tab promise: a store of named *)
(* files.  One request at a time is asked and answered.  A create makes    *)
(* the whole file at once or nothing; an overwrite changes only the file   *)
(* it names, block by block and in any order, and may stop half-way; "ok"  *)
(* is answered only when the file is what was asked for.  A cut, a refused *)
(* write or a full filesystem is answered "error" at any point.            *)
(* Ext4Writes implements it with bitmaps, descriptors and inodes.          *)
(***************************************************************************)
EXTENDS Naturals, Sequences

CONSTANTS Names,        \* the names a directory may hold
          Requests,     \* [kind, name, data, size]: data is one tag per block
          NoRequest,    \* nothing is being asked
          Zero          \* the content of a block of zeros

VARIABLES files,        \* name -> [size, content], for the names that exist
          request,      \* what is being done, or NoRequest
          answer        \* what the last request was answered

storeVars == <<files, request, answer>>

Exists(n) == n \in DOMAIN files

(* What the i-th block of a file holds once request r has written it.      *)
Piece(r, i) == IF i <= Len(r.data) THEN r.data[i] ELSE Zero

(* The file is what request r asked for.                                   *)
Holds(f, r) ==
    /\ f.size = r.size
    /\ Len(r.data) <= Len(f.content)
    /\ \A i \in DOMAIN f.content : f.content[i] = Piece(r, i)

StoreInit ==
    /\ DOMAIN files \subseteq Names
    /\ request = NoRequest
    /\ answer = "none"

Ask ==
    /\ request = NoRequest
    /\ request' \in Requests
    /\ answer' = "none"
    /\ UNCHANGED files

Make ==
    /\ request # NoRequest /\ request.kind = "create"
    /\ ~Exists(request.name)
    /\ files' = [n \in DOMAIN files \cup {request.name} |->
                    IF n = request.name
                    THEN [size |-> request.size, content |-> request.data]
                    ELSE files[n]]
    /\ UNCHANGED <<request, answer>>

Rewrite ==
    /\ request # NoRequest /\ request.kind = "overwrite"
    /\ Exists(request.name)
    /\ \E i \in DOMAIN files[request.name].content :
           files' = [files EXCEPT ![request.name].content[i] = Piece(request, i)]
    /\ UNCHANGED <<request, answer>>

Resize ==
    /\ request # NoRequest /\ request.kind = "overwrite"
    /\ Exists(request.name)
    /\ files' = [files EXCEPT ![request.name].size = request.size]
    /\ UNCHANGED <<request, answer>>

Tell ==
    /\ request # NoRequest
    /\ \/ answer' = "error"
       \/ /\ answer' = "ok"
          /\ Exists(request.name)
          /\ Holds(files[request.name], request)
    /\ request' = NoRequest
    /\ UNCHANGED files

StoreNext == Ask \/ Make \/ Rewrite \/ Resize \/ Tell

StoreSpec == StoreInit /\ [][StoreNext]_storeVars
=============================================================================
