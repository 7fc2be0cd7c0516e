------------------------------ MODULE GridFTP ------------------------------
(***************************************************************************)
(* One transfer over GridFTP (dspaces_rel/trans/gftp_trans): GFTPTrans     *)
(* writes the data to a file in its tmpfs directory, and gridftp_put_file  *)
(* or gridftp_get_file moves the file, a buffer at a time, in callbacks of *)
(* the Globus library while the caller waits for done_cb.  After a put,    *)
(* RI_GRIDFTP_PUT makes the destination read the file                      *)
(* (RIManager::handle_dm_move, handle_gridftp_put).                        *)
(*                                                                         *)
(* A file is a sequence of bytes, and byte i of the data is i; 0 stands    *)
(* for a byte of an earlier transfer.  The library is external: it carries *)
(* out what is registered and calls back, and a transfer may fail between  *)
(* two callbacks.  Compiled with _GRIDFTP_ only.                           *)
(***************************************************************************)
EXTENDS Naturals, Sequences

CONSTANTS
    MaxBufferSizeW,   \* MAX_BUFFER_SIZE_W
    MaxFile           \* bound: the longest file, in bytes

ASSUME GridFTPAssumption == MaxBufferSizeW \in Nat \ {0} /\ MaxFile \in Nat

VARIABLES
    gop,      \* "put", "get", or "none"
    gsize,    \* datasize_inB
    gdirs,    \* both sites have the same tmpfs_dir
    gpc,      \* the calling thread
    gdone,    \* trans_context::done
    gpos,     \* bytes read from the file that is sent
    gbuf,     \* buffer
    greg,     \* what is registered with the library
    gfile,    \* the file at the other end
    gover,    \* the library has called done_cb: "no", "ok" or "err"
    gread,    \* what the destination has read
    gshort    \* history: a read was not full, or came with the end of file

gvars == <<gop, gsize, gdirs, gpc, gdone, gpos, gbuf, greg, gfile, gover, gread, gshort>>

None   == [len |-> 0, eof |-> TRUE, on |-> FALSE]
NoText == [how |-> "none", text |-> <<>>]

\* The file IODriver::write_file makes: its bytes are told apart by their place.
Bytes(from, n) == [i \in 1 .. n |-> from + i]

GftpStart(op) ==
    /\ gop = op
    /\ gsize \in 0 .. MaxFile /\ gdirs \in BOOLEAN
    /\ gpc = "start" /\ gdone = FALSE
    /\ gpos = 0 /\ gbuf = [i \in 1 .. MaxBufferSizeW |-> 0] /\ greg = None
    /\ gfile = <<>> /\ gover = "no" /\ gread = NoText /\ gshort = FALSE

GftpInit == GftpStart("put") \/ GftpStart("get")
GftpIdle == GftpStart("none") /\ gsize = 0 /\ gdirs = TRUE

Smaller(a, b) == IF a < b THEN a ELSE b

\* fread of a buffer, and feof: set only when fewer bytes than asked were left.
Fread ==
    LET n == Smaller(MaxBufferSizeW, gsize - gpos) IN
    /\ gpos' = gpos + n
    /\ gbuf' = [i \in 1 .. MaxBufferSizeW |-> IF i <= n THEN gpos + i ELSE gbuf[i]]
    /\ greg' = [len |-> n, eof |-> n < MaxBufferSizeW, on |-> TRUE]

-----------------------------------------------------------------------------
(* GFTPTrans::put and gridftp_put_file.                                     *)

\* GFTPTrans::put has write_file put the data under this site's directory, and
\* names the file to send after the directory of the other.
SourceFound == gdirs

\* gridftp_put_file: fopen, or the library, may fail.
PutStart ==
    /\ gop = "put" /\ gpc = "start"
    /\ \/ /\ SourceFound
          /\ Fread
          /\ gpc' = "wait"
       \/ /\ gpc' = "err"
          /\ UNCHANGED <<gpos, gbuf, greg>>
    /\ UNCHANGED <<gop, gsize, gdirs, gdone, gfile, gover, gread, gshort>>

\* The registered write is carried out; data_write_cb registers the next.
data_write_cb ==
    /\ gop = "put" /\ greg.on /\ gover = "no"
    /\ gfile' = gfile \o SubSeq(gbuf, 1, greg.len)
    /\ IF greg.eof THEN greg' = None /\ UNCHANGED <<gpos, gbuf>> ELSE Fread
    /\ UNCHANGED <<gop, gsize, gdirs, gpc, gdone, gover, gread, gshort>>

-----------------------------------------------------------------------------
(* GFTPTrans::get and gridftp_get_file.                                     *)

GetFileStart ==
    /\ gop = "get" /\ gpc = "start"
    /\ \/ gpc' = "wait" /\ greg' = [None EXCEPT !.on = TRUE]
       \/ gpc' = "err" /\ UNCHANGED greg
    /\ UNCHANGED <<gop, gsize, gdirs, gdone, gpos, gbuf, gfile, gover, gread, gshort>>

\* The library has read some bytes, or has met the end, perhaps with the last of
\* them.  The whole buffer is written, whatever length says, and what comes with
\* the end is not.
data_read_cb ==
    /\ gop = "get" /\ greg.on /\ gover = "no"
    /\ \E n \in 0 .. Smaller(MaxBufferSizeW, gsize - gpos), eof \in BOOLEAN :
        /\ eof => gpos + n = gsize
        /\ ~eof => n > 0
        /\ gpos' = gpos + n
        /\ gbuf' = [i \in 1 .. MaxBufferSizeW |-> IF i <= n THEN gpos + i ELSE gbuf[i]]
        /\ gshort' = (gshort \/ (IF eof THEN n > 0 ELSE n < MaxBufferSizeW))
        /\ gfile' = IF eof THEN gfile ELSE gfile \o gbuf'
        /\ greg' = IF eof THEN None ELSE greg
    /\ UNCHANGED <<gop, gsize, gdirs, gpc, gdone, gover, gread>>

-----------------------------------------------------------------------------
(* The end.                                                                 *)

\* Mutant of done_cb: a failure is an end too.
DoneCbAlways ==
    /\ gpc \in {"wait", "blocked"} /\ gover = "no"
    /\ \/ ~greg.on /\ gover' = "ok"
       \/ gover' = "err"
    /\ gdone' = TRUE
    /\ UNCHANGED <<gop, gsize, gdirs, gpc, gpos, gbuf, greg, gfile, gread, gshort>>

\* done_cb sets done only if there was no error, and signals in neither case.
done_cb ==
    /\ gpc \in {"wait", "blocked"} /\ gover = "no"
    /\ \/ ~greg.on /\ gover' = "ok" /\ gdone' = TRUE
       \/ gover' = "err" /\ UNCHANGED gdone
    /\ UNCHANGED <<gop, gsize, gdirs, gpc, gpos, gbuf, greg, gfile, gread, gshort>>

\* _wait: the thread that finds done set returns; another one sleeps, and
\* nobody will signal it.
Wait ==
    /\ gpc = "wait"
    /\ gpc' = IF gdone THEN "ok" ELSE "blocked"
    /\ UNCHANGED <<gop, gsize, gdirs, gdone, gpos, gbuf, greg, gfile, gover, gread, gshort>>

\* IODriver::read_file.  Of a missing file tellg is -1, and the allocation of so
\* many bytes throws.
read_file ==
    IF gpc = "err" /\ gfile = <<>> THEN [NoText EXCEPT !.how = "thrown"]
    ELSE [how |-> "read", text |-> gfile]

\* handle_dm_move sends RI_GRIDFTP_PUT whatever the put returned.
read_del_datafile ==
    /\ gop = "put" /\ gpc \in {"ok", "err"} /\ gread = NoText
    /\ gread' = read_file
    /\ UNCHANGED <<gop, gsize, gdirs, gpc, gdone, gpos, gbuf, greg, gfile, gover, gshort>>

GftpNext ==
    \/ PutStart \/ data_write_cb \/ GetFileStart \/ data_read_cb
    \/ done_cb \/ Wait \/ read_del_datafile

GftpSpec == GftpInit /\ [][GftpNext]_gvars

-----------------------------------------------------------------------------
(* Properties.                                                              *)

\* What the destination reads is the whole file, in order: the file is complete
\* when done_cb lets the caller go on and the destination is told, and of a put
\* that failed there is no file to read, though it is told then too.
ReadWhole == gread.how = "read" => gread.text = Bytes(0, gsize)

\* A get that returns 0 has left the file as it was sent, unless a read was
\* short or carried the end of the file with it.
GetExact == gop = "get" /\ gpc = "ok" => gfile = Bytes(0, gsize) \/ gshort

\* Whoever is blocked is so because the transfer failed or ended after the look:
\* a caller that looks after the end returns.
EndSeen == [][gpc = "wait" /\ gpc' = "blocked" => gover # "ok"]_gvars

\* A file arrives whole or is not read, and a caller that looks after the end sees
\* it, though done_cb signals nobody (gridftp_put_file, gridftp_get_file).
FilesSound == [](ReadWhole /\ GetExact) /\ EndSeen
=============================================================================
