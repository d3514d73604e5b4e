------------------------------- MODULE Httpd -------------------------------
(***************************************************************************)
(* The HTTP server (webserver/httpd.c) with its file system (fs.c).        *)
(*                                                                         *)
(* The server is a set of callbacks lwIP calls, one at a time, for a TCP   *)
(* connection: accepted, data or FIN received, data acknowledged, polled   *)
(* by the timer, dead.  A file is sent in pieces as the send buffer of the *)
(* connection has room; in a file with server-side includes every tag is   *)
(* sent and the string that the SSI handler provides behind it, although   *)
(* the comments of httpd.c have the string replace the tag.  A piece may   *)
(* be refused for lack of memory at any time, and the client may stop      *)
(* acknowledging or disappear.                                             *)
(*                                                                         *)
(* Files are sequences of bytes, a tag counting as one byte: send_data     *)
(* never leaves its loop in the middle of a tag.  The files are in flash,  *)
(* all of a file is there when it is opened, so hs->left and               *)
(* hs->parse_left are the distances of hs->file and hs->parsed to its end, *)
(* fs_read only ever reports the end, and the buffer allocated for it      *)
(* lives no longer than the call of send_data.                             *)
(***************************************************************************)
EXTENDS Integers, Sequences, FiniteSets

CONSTANTS
  Conn,           (* connections: the TCP pcbs of lwIP                     *)
  NONE,           (* no connection, no file                                *)
  Content,        (* the files: name to sequence of bytes                  *)
  Missing,        (* a name that is no file                                *)
  Page404,        (* /404.htm                                              *)
  Shtml,          (* the names with an SSI extension                       *)
  Tags,           (* the bytes that stand for a tag                        *)
  Insert,         (* the string the SSI handler provides                   *)
  SND_BUF,        (* TCP_SND_BUF                                           *)
  MSS,            (* the maximum segment size of a connection              *)
  MAX_OPEN_FILES, (* LWIP_MAX_OPEN_FILES                                   *)
  MAX_RETRIES     (* polls without progress before a connection is aborted *)

Name == DOMAIN Content
Byte == UNION {{s[k] : k \in 1..Len(s)} : s \in {Content[f] : f \in Name} \cup {Insert}}

ASSUME HttpdAssumption ==
  /\ NONE \notin Conn \cup Name /\ Missing \notin Name
  /\ Page404 \in Name /\ Shtml \subseteq Name \ {Page404}
  /\ SND_BUF \in Nat \ {0} /\ MSS \in Nat \ {0}
  /\ MAX_OPEN_FILES \in Nat \ {0} /\ MAX_RETRIES \in Nat \ {0}
  /\ Insert \in Seq(Byte)
  /\ \A f \in Name : Content[f] \in Seq(Byte) /\ Len(Content[f]) > 0

(* No page ends in a tag, as a page ends in "</html>": send_data only      *)
(* looks at its tag state while there is something left to parse, and      *)
(* would close the connection without the insert of such a tag.            *)
ASSUME LastIsText == \A f \in Shtml : Content[f][Len(Content[f])] \notin Tags

VARIABLES
  pcb,     (* per connection: TCP state, callbacks, data written           *)
  hs,      (* per connection: its struct http_state                        *)
  inuse,   (* the entries of fs_memory that are in use                     *)
  leaked,  (* a received pbuf was neither freed nor kept                   *)
  cb       (* the call of send_data in progress                            *)

vars == <<pcb, hs, inuse, leaked, cb>>

(* No pcb; no http_state (freed or not allocated).  out, reply and done    *)
(* record what was written, of which file, and whether the server came to  *)
(* its end.                                                                *)
NoPcb   == [state |-> "none", arg |-> FALSE, recv |-> FALSE, sent |-> FALSE,
            unacked |-> 0, out |-> << >>, reply |-> NONE, done |-> FALSE]
NoState == [live |-> FALSE, handle |-> 0, uri |-> NONE, file |-> 0, parsed |-> 0,
            tag_check |-> FALSE, tag_state |-> "none", tag_index |-> 0,
            tag_end |-> 0, retries |-> 0]
NoCall  == [conn |-> NONE, at |-> "idle", len |-> 0, err |-> "OK", fromSent |-> FALSE]

Init ==
  /\ pcb = [c \in Conn |-> NoPcb] /\ hs = [c \in Conn |-> NoState]
  /\ inuse = {} /\ leaked = FALSE /\ cb = NoCall

Idle == cb = NoCall

---------------------------------------------------------------------------
(* Ends of a connection.                                                   *)

(* Mutant: the file is not closed.                                         *)
FreeStateOpen(c) ==
  /\ hs' = [hs EXCEPT ![c] = NoState]
  /\ UNCHANGED inuse

(* mem_free of the state, with fs_close of its file.                       *)
FreeState(c) ==
  /\ hs' = [hs EXCEPT ![c] = NoState]
  /\ inuse' = inuse \ {hs[c].handle}

(* Mutant: the argument of the callbacks is not cleared.                   *)
DetachedNot(c, state) ==
  [pcb[c] EXCEPT !.state = state, !.recv = FALSE, !.sent = FALSE]

(* The pcb after close_conn; tcp_close may find no memory for the FIN.     *)
Detached(c, state) ==
  [pcb[c] EXCEPT !.state = state, !.arg = FALSE, !.recv = FALSE, !.sent = FALSE]

close_conn(c) ==
  /\ \E st \in {"fin", "estab"} : pcb' = [pcb EXCEPT ![c] = Detached(c, st)]
  /\ FreeState(c)

(* Mutant: the file stays open.                                            *)
conn_errOpen(c) ==
  /\ pcb' = [pcb EXCEPT ![c] = NoPcb]
  /\ hs' = [hs EXCEPT ![c] = NoState]
  /\ UNCHANGED inuse

(* lwIP frees the pcb and tells the server: conn_err.                      *)
conn_err(c) ==
  /\ pcb' = [pcb EXCEPT ![c] = NoPcb]
  /\ IF pcb[c].arg THEN FreeState(c) ELSE UNCHANGED <<hs, inuse>>

---------------------------------------------------------------------------
(* send_data, one round of its loops at a time.                            *)

SndBuf(c) == SND_BUF - pcb[c].unacked
Size(c)   == IF hs[c].handle = 0 THEN 0 ELSE Len(Content[hs[c].uri])
Left(c)   == Size(c) - hs[c].file
Least(S)  == CHOOSE n \in S : \A m \in S : n <= m

(* What the loop around tcp_write may come to when it starts with len      *)
(* bytes and there is room for room: len is halved while ERR_MEM and more  *)
(* than one byte is left.                                                  *)
Tried(len) == {len} \cup {n \in 2..len : \E k \in 1..len : n = len \div 2^k}
WriteLoop(len, room) ==
       {[err |-> "OK", len |-> n] : n \in {m \in Tried(len) : m <= room}}
  \cup {[err |-> "MEM", len |-> IF len = 1 THEN 0 ELSE 1] : k \in 1..len}

Wrote(c, bytes) == [pcb[c] EXCEPT !.out = @ \o bytes, !.unacked = @ + Len(bytes)]

(* The bytes of the file that were written; w is the outcome of the loop.  *)
FilePiece(c, w) ==
  IF w.err = "OK"
  THEN SubSeq(Content[hs[c].uri], hs[c].file + 1, hs[c].file + w.len) ELSE << >>

(* send_data goes on at the given place, or returns to its caller; back in *)
(* http_sent, that enables the notifications again.                        *)
GoOn(p, at, len, err) ==
  /\ pcb' = [pcb EXCEPT ![cb.conn] = p]
  /\ cb' = [cb EXCEPT !.at = at, !.len = len, !.err = err]
Return(p) ==
  /\ pcb' = [pcb EXCEPT ![cb.conn] = [p EXCEPT !.sent = @ \/ cb.fromSent]]
  /\ cb' = NoCall

(* All of the file is written: allocate a buffer, find the end of the      *)
(* file, or that there is none, and close.                                 *)
SendEnd(c) ==
  /\ cb.at = "send" /\ Left(c) = 0
  /\ \/ /\ \E st \in {"fin", "estab"} :
             Return([Detached(c, st) EXCEPT !.done = pcb[c].reply # NONE])
        /\ FreeState(c)
     \/ Return(pcb[c]) /\ UNCHANGED <<hs, inuse>>
  /\ UNCHANGED leaked

SendPlain(c) ==
  /\ cb.at = "send" /\ Left(c) > 0 /\ ~hs[c].tag_check
  /\ \E w \in WriteLoop(Least({SndBuf(c), Left(c), 2 * MSS}), SndBuf(c)) :
       LET piece == FilePiece(c, w)
       IN  /\ hs' = [hs EXCEPT ![c].file = @ + Len(piece)]
           /\ Return(Wrote(c, piece))
  /\ UNCHANGED <<inuse, leaked>>

(* Mutant: parsing goes on although the send buffer is full.               *)
SendParsedOn(c) ==
  /\ cb.at = "send" /\ Left(c) > 0 /\ hs[c].tag_check
  /\ \/ /\ hs[c].parsed > hs[c].file
        /\ \E w \in WriteLoop(Least({SndBuf(c), hs[c].parsed - hs[c].file, 2 * MSS}), SndBuf(c)) :
             LET piece == FilePiece(c, w)
             IN  /\ hs' = [hs EXCEPT ![c].file = @ + Len(piece)]
                 /\ GoOn(Wrote(c, piece), "parse", w.len, w.err)
     \/ /\ hs[c].parsed = hs[c].file
        /\ GoOn(pcb[c], "parse", SndBuf(c), "OK")
        /\ UNCHANGED hs
  /\ UNCHANGED <<inuse, leaked>>

(* Bytes already parsed go first.                                          *)
SendParsed(c) ==
  /\ cb.at = "send" /\ Left(c) > 0 /\ hs[c].tag_check
  /\ \/ /\ hs[c].parsed > hs[c].file
        /\ \E w \in WriteLoop(Least({SndBuf(c), hs[c].parsed - hs[c].file, 2 * MSS}), SndBuf(c)) :
             LET piece == FilePiece(c, w)
             IN  /\ hs' = [hs EXCEPT ![c].file = @ + Len(piece)]
                 /\ IF SndBuf(c) = Len(piece)
                    THEN Return(Wrote(c, piece))
                    ELSE GoOn(Wrote(c, piece), "parse", w.len, w.err)
     \/ /\ hs[c].parsed = hs[c].file
        /\ GoOn(pcb[c], "parse", SndBuf(c), "OK")
        /\ UNCHANGED hs
  /\ UNCHANGED <<inuse, leaked>>

(* The tags after byte k.                                                  *)
NextTag(f, k) == {n \in k + 1..Len(Content[f]) : Content[f][n] \in Tags}

(* The file before and including the tag, up to hs->tag_end.               *)
SendToTag(c, h) ==
  \E w \in WriteLoop(Least({cb.len, h.tag_end - h.file}), SndBuf(c)) :
    LET piece == FilePiece(c, w)
    IN  /\ hs' = [hs EXCEPT ![c] = [h EXCEPT !.file = @ + Len(piece)]]
        /\ GoOn(Wrote(c, piece), "parse", w.len, w.err)

Parsing(c) == cb.at = "parse" /\ hs[c].parsed < Size(c) /\ cb.err = "OK"

(* TAG_NONE to TAG_LEADOUT: scan for a tag, start to send up to its end.   *)
ScanTag(c) ==
  /\ Parsing(c) /\ hs[c].tag_state = "none"
  /\ LET found == NextTag(hs[c].uri, hs[c].parsed)
     IN  \/ /\ found # {}
           /\ SendToTag(c, [hs[c] EXCEPT !.parsed = Least(found), !.tag_end = Least(found),
                                         !.tag_index = 0, !.tag_state = "sending"])
        \/ /\ found = {}
           /\ hs' = [hs EXCEPT ![c].parsed = Size(c)]
           /\ UNCHANGED <<pcb, cb>>
  /\ UNCHANGED <<inuse, leaked>>

(* TAG_SENDING: the rest of the file before the insert.                    *)
SendTag(c) ==
  /\ Parsing(c) /\ hs[c].tag_state = "sending" /\ hs[c].tag_end > hs[c].file
  /\ SendToTag(c, hs[c])
  /\ UNCHANGED <<inuse, leaked>>

(* Mutant: the first piece is taken for all of the insert.                 *)
SendInsertOnce(c) ==
  /\ Parsing(c) /\ hs[c].tag_state = "sending" /\ hs[c].tag_end = hs[c].file
  /\ \E w \in WriteLoop(Least({cb.len, Len(Insert) - hs[c].tag_index}), SndBuf(c)) :
       \/ /\ w.err = "OK"
          /\ hs' = [hs EXCEPT ![c].tag_index = 0, ![c].tag_state = "none"]
          /\ Return(Wrote(c, SubSeq(Insert, 1, w.len)))
       \/ /\ w.err = "MEM"
          /\ GoOn(pcb[c], "parse", w.len, w.err)
          /\ UNCHANGED hs
  /\ UNCHANGED <<inuse, leaked>>

(* TAG_SENDING: the insert, one piece for each call of send_data.          *)
SendInsert(c) ==
  /\ Parsing(c) /\ hs[c].tag_state = "sending" /\ hs[c].tag_end = hs[c].file
  /\ \/ /\ hs[c].tag_index < Len(Insert)
        /\ \E w \in WriteLoop(Least({cb.len, Len(Insert) - hs[c].tag_index}), SndBuf(c)) :
             \/ /\ w.err = "OK"
                /\ hs' = [hs EXCEPT ![c].tag_index = @ + w.len]
                /\ Return(Wrote(c, SubSeq(Insert, hs[c].tag_index + 1, hs[c].tag_index + w.len)))
             \/ /\ w.err = "MEM"
                /\ GoOn(pcb[c], "parse", w.len, w.err)
                /\ UNCHANGED hs
     \/ /\ hs[c].tag_index = Len(Insert)
        /\ hs' = [hs EXCEPT ![c].tag_index = 0, ![c].tag_state = "none"]
        /\ UNCHANGED <<pcb, cb>>
  /\ UNCHANGED <<inuse, leaked>>

(* After the loop: what is parsed and holds no tag.                        *)
SendTail(c) ==
  /\ cb.at = "parse" /\ ~Parsing(c)
  /\ \/ /\ hs[c].tag_state # "sending" /\ hs[c].parsed > hs[c].file
        /\ \E w \in WriteLoop(Least({SndBuf(c), hs[c].parsed - hs[c].file, 2 * MSS}), SndBuf(c)) :
             LET piece == FilePiece(c, w)
             IN  /\ hs' = [hs EXCEPT ![c].file = @ + Len(piece)]
                 /\ Return(Wrote(c, piece))
     \/ /\ hs[c].tag_state = "sending" \/ hs[c].parsed = hs[c].file
        /\ Return(pcb[c])
        /\ UNCHANGED hs
  /\ UNCHANGED <<inuse, leaked>>

send_data ==
  \E c \in Conn :
    /\ cb.conn = c
    /\ SendEnd(c) \/ SendPlain(c) \/ SendParsed(c) \/ ScanTag(c)
         \/ SendTag(c) \/ SendInsert(c) \/ SendTail(c)

Call(c, back) == cb' = [NoCall EXCEPT !.conn = c, !.at = "send", !.fromSent = back]

---------------------------------------------------------------------------
(* The callbacks.                                                          *)

http_accept(c) ==
  /\ Idle /\ pcb[c].state = "none"
  /\ pcb' = [pcb EXCEPT ![c] = [NoPcb EXCEPT !.state = "estab", !.arg = TRUE, !.recv = TRUE]]
  /\ hs' = [hs EXCEPT ![c] = [NoState EXCEPT !.live = TRUE]]
  /\ UNCHANGED <<inuse, leaked, cb>>

(* fs_open takes the first free entry of fs_memory and looks the name up;  *)
(* if there is no such file, get_404_file.                                 *)
Found(uri) == IF uri \in Name THEN uri ELSE Page404
FreeFiles  == 1..MAX_OPEN_FILES \ inuse

(* A GET request.  While a file is being sent, data is freed unread.       *)
http_recv_get(c, uri) ==
  /\ Idle /\ pcb[c].recv /\ hs[c].handle = 0
  /\ \/ /\ FreeFiles # {}
        /\ hs' = [hs EXCEPT ![c] = [NoState EXCEPT
                     !.live = TRUE, !.handle = Least(FreeFiles), !.uri = Found(uri),
                     !.tag_check = uri \in Shtml]]
        /\ inuse' = inuse \cup {Least(FreeFiles)}
        /\ pcb' = [pcb EXCEPT ![c].sent = TRUE, ![c].reply = Found(uri)]
        /\ UNCHANGED leaked
     \/ /\ FreeFiles = {}
        /\ leaked' = TRUE      (* the branch without a pbuf_free           *)
        /\ hs' = [hs EXCEPT ![c].retries = 0]
        /\ pcb' = [pcb EXCEPT ![c].sent = TRUE]
        /\ UNCHANGED inuse
  /\ Call(c, FALSE)

(* Not a GET, or without " HTTP"; or p = NULL: the client is done.         *)
http_recv_close(c) ==
  /\ Idle /\ pcb[c].recv
  /\ close_conn(c)
  /\ UNCHANGED <<leaked, cb>>

(* n bytes are acknowledged; without a state http_sent does nothing.       *)
http_sent(c, n) ==
  /\ Idle /\ n <= pcb[c].unacked
  /\ \/ /\ pcb[c].sent /\ pcb[c].arg
        /\ pcb' = [pcb EXCEPT ![c].unacked = @ - n, ![c].sent = FALSE]
        /\ hs' = [hs EXCEPT ![c].retries = 0]
        /\ Call(c, TRUE)
     \/ /\ ~(pcb[c].sent /\ pcb[c].arg)
        /\ pcb' = [pcb EXCEPT ![c].unacked = @ - n]
        /\ UNCHANGED <<hs, cb>>
  /\ UNCHANGED <<inuse, leaked>>

(* Mutant: the retries are not counted.                                    *)
http_pollUncounted(c) ==
  /\ Idle /\ pcb[c].state # "none"
  /\ \/ /\ ~pcb[c].arg
        /\ conn_err(c)
        /\ UNCHANGED cb
     \/ /\ pcb[c].arg
        /\ IF hs[c].handle # 0 THEN Call(c, FALSE) ELSE UNCHANGED cb
        /\ UNCHANGED <<pcb, hs, inuse>>
  /\ UNCHANGED leaked

http_poll(c) ==
  /\ Idle /\ pcb[c].state # "none"
  /\ \/ /\ pcb[c].arg => hs[c].retries + 1 = MAX_RETRIES
        /\ conn_err(c)                       (* called by tcp_abort        *)
        /\ UNCHANGED cb
     \/ /\ pcb[c].arg /\ hs[c].retries + 1 # MAX_RETRIES
        /\ hs' = [hs EXCEPT ![c].retries = @ + 1]
        /\ IF hs[c].handle # 0 THEN Call(c, FALSE) ELSE UNCHANGED cb
        /\ UNCHANGED <<pcb, inuse>>
  /\ UNCHANGED leaked

---------------------------------------------------------------------------
(* The client resets the connection, or acknowledges all and the FIN.      *)
Reset(c) ==
  /\ Idle /\ pcb[c].state # "none"
  /\ conn_err(c)
  /\ UNCHANGED <<leaked, cb>>

Finished(c) ==
  /\ Idle /\ pcb[c].state = "fin" /\ pcb[c].unacked = 0
  /\ pcb' = [pcb EXCEPT ![c] = NoPcb]
  /\ UNCHANGED <<hs, inuse, leaked, cb>>

Next ==
  \/ send_data
  \/ \E c \in Conn :
       \/ http_accept(c) \/ http_recv_close(c) \/ http_poll(c)
       \/ Reset(c) \/ Finished(c)
       \/ \E uri \in Name \cup {Missing} : http_recv_get(c, uri)
       \/ \E n \in 1..SND_BUF : http_sent(c, n)

Spec == Init /\ [][Next]_vars

(* A call goes on until it returns, and the timer of lwIP polls every      *)
(* connection again and again.  Nothing is assumed of the clients.         *)
FairSpec ==
  /\ Spec
  /\ WF_vars(send_data)
  /\ \A c \in Conn : SF_vars(http_poll(c))

---------------------------------------------------------------------------
(* What send_data makes of f: the file, every tag followed by its insert.  *)
(* The comments of httpd.c (41-43, 143, 701-702) and httpd.h (103-104)     *)
(* have the insert replace the tag; the code sends the file up to tag_end, *)
(* the position behind the tag, before the insert.                         *)
Piece(f, k) == IF f \in Shtml /\ Content[f][k] \in Tags
               THEN <<Content[f][k]>> \o Insert ELSE <<Content[f][k]>>
UpTo(f) ==
  LET upTo[k \in 0..Len(Content[f])] == IF k = 0 THEN << >> ELSE upTo[k - 1] \o Piece(f, k)
  IN  upTo
Reply(f) == UpTo(f)[Len(Content[f])]

TypeOK ==
  /\ \A c \in Conn :
       /\ pcb[c].state \in {"none", "estab", "fin"}
       /\ {pcb[c].arg, pcb[c].recv, pcb[c].sent, pcb[c].done} \subseteq BOOLEAN
       /\ pcb[c].unacked \in 0..SND_BUF /\ pcb[c].reply \in Name \cup {NONE}
       /\ hs[c].handle \in 0..MAX_OPEN_FILES /\ hs[c].uri \in Name \cup {NONE}
       /\ hs[c].retries \in 0..MAX_RETRIES - 1
       /\ hs[c].file \in 0..Size(c) /\ hs[c].parsed \in 0..Size(c)
  /\ inuse \subseteq 1..MAX_OPEN_FILES /\ leaked \in BOOLEAN
  /\ cb.conn \in Conn \cup {NONE}

(* Whatever pieces the send buffer and the memory allow, no byte of a file *)
(* or of an insert is lost, repeated or sent in another order, and nothing *)
(* is missing when the server closes the connection at the end of a file.  *)
(* Reply is what the code means to send, tags included; the property says  *)
(* nothing about the comments of httpd.c that have the tags replaced.      *)
StreamIntact ==
  \A c \in Conn : pcb[c].reply # NONE =>
    LET r == Reply(pcb[c].reply)
    IN  /\ Len(pcb[c].out) <= Len(r)
        /\ pcb[c].out = SubSeq(r, 1, Len(pcb[c].out))
        /\ pcb[c].done => pcb[c].out = r

(* The argument of the callbacks of a connection is its state as long as   *)
(* that is allocated, and NULL afterwards, in whatever order close_conn,   *)
(* tcp_abort, conn_err and late callbacks come.                            *)
NoStaleState == \A c \in Conn : pcb[c].arg <=> hs[c].live

(* The entries of fs_memory in use are those of the files being sent, one  *)
(* for each: none leaks when a connection dies, none is freed twice and    *)
(* given to two.                                                           *)
HandlesExact ==
  /\ inuse = {hs[c].handle : c \in Conn} \ {0}
  /\ \A c, d \in Conn : c # d /\ hs[c].handle # 0 => hs[c].handle # hs[d].handle

(* With as many entries in fs_memory as lwIP has pcbs, the branch of       *)
(* http_recv that has no file, and does not free the pbuf, is not reached. *)
NoPbufLeak == ~leaked

(* send_data is caught in the parse loop: no room is left for what is to   *)
(* be sent up to the tag, to write nothing is no error, and the next round *)
(* finds everything unchanged.                                             *)
Caught(c) ==
  /\ cb.conn = c /\ Parsing(c) /\ cb.len = 0
  /\ hs[c].tag_state = "sending" /\ hs[c].tag_end > hs[c].file

TagBefore(f, k) == \E n \in 1..k - 1 : Content[f][n] \in Tags

(* The parse loop is entered with a full send buffer only after a complete *)
(* insert: send_data is never caught at the first tag of a page, however   *)
(* writes are cut or refused.                                              *)
CaughtBehindTag ==
  \A c \in Conn : Caught(c) => SndBuf(c) = 0 /\ TagBefore(hs[c].uri, hs[c].tag_end)

(* Every connection is closed or aborted, even if the client never         *)
(* acknowledges or never sends a request, or memory is always short,       *)
(* unless send_data is caught, for this or another connection: with        *)
(* CaughtBehindTag, only in a page with two tags or more.  (It takes an    *)
(* entry of fs_memory for every connection: a client that has none may     *)
(* repeat its request for ever, and every request resets the retries.)     *)
ConnectionEnds ==
  \A c \in Conn : pcb[c].state # "none" ~> (pcb[c].state = "none" \/ \E d \in Conn : Caught(d))

(* send_data returns, also when the send buffer is full.                   *)
SendDataReturns == cb # NoCall ~> cb = NoCall
============================================================================
