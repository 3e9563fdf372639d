---------------------------- MODULE ClientSession ----------------------------
(***************************************************************************)
(* One invocation of the dma-ctl client (src/user/cli/nl_user.c): main()  *)
(* runs parse_cmd (CmdParse) on its argv, then connects to the PF or VF generic-netlink server,      *)
(* resolves its family id, queries DEV_INFO, sends the command, decodes    *)
(* the reply with recv_attrs and closes the socket.  The kernel side       *)
(* (genetlink controller and the driver's nl.c handlers) is the            *)
(* environment: it may lack a family, answer NLMSG_ERROR, or, under        *)
(* version skew, append an attribute type this client does not know.      *)
(*                                                                         *)
(* Messages are abstracted to their attribute streams with byte lengths,   *)
(* so the length and alignment arithmetic of the encoder and of the        *)
(* recv_attrs loop is kept.  The loop runs one iteration per step.         *)
(***************************************************************************)
EXTENDS Integers, CmdParse

CONSTANTS
    Argvs,       \* the command lines the client is run with
    Vals,        \* the 32-bit values the kernel reports, abstracted
    MsgLens,     \* payload lengths (with NUL) of a GENMSG string reply
    NewerAttrs   \* TRUE when the kernel may know attribute types we do not

ASSUME ArgvsAssumption == Argvs # {} /\ \A a \in Argvs : Len(a) >= 1
ASSUME ValsAssumption == Vals \subseteq Nat /\ Vals # {}
ASSUME MsgLensAssumption == MsgLens \subseteq Nat \ {0} /\ MsgLens # {}
ASSUME NewerAttrsAssumption == NewerAttrs \in BOOLEAN

(* include/nl.h: enum xnl_attr_t *)
XNL_ATTR_GENMSG == 0
XNL_ATTR_DRV_INFO == 1
XNL_ATTR_DEV_IDX == 2
XNL_ATTR_PCI_BUS == 3
XNL_ATTR_PCI_DEV == 4
XNL_ATTR_PCI_FUNC == 5
XNL_ATTR_DEV_CFG_BAR == 6
XNL_ATTR_DEV_USR_BAR == 7
XNL_ATTR_DEV_QSET_MAX == 8
XNL_ATTR_QIDX == 12
XNL_ATTR_QFLAG == 13
XNL_ATTR_QRNGSZ == 14
XNL_ATTR_QBUFSZ == 15
XNL_ATTR_WRB_DESC_SIZE == 16
XNL_ATTR_RANGE_START == 17
XNL_ATTR_RANGE_END == 18
XNL_ATTR_MAX == 19

(* linux/genetlink.h and netlink.h *)
CTRL_ATTR_FAMILY_ID == 1
CTRL_ATTR_FAMILY_NAME == 2
NLA_HDRLEN == 4
HDRLEN == 20                          \* NLMSG_LENGTH(GENL_HDRLEN)
NLA_ALIGN(n) == ((n + 3) \div 4) * 4  \* also NLMSG_ALIGN
ENOMEM == 12
FamilyIdOf(vf) == IF vf THEN 17 ELSE 16  \* ids the controller assigned

Servers == BOOLEAN    \* vf = FALSE: the "xnl_pf" server, TRUE: "xnl_vf"
Fds == {3, 4}         \* socket() returns 3, then 4; cb.fd = 0 after memset

(* An attribute as sent on the wire: type, payload length, 32-bit value. *)
Attr(t, plen, v) == [type |-> t, plen |-> plen, val |-> v]
NlaLen(a) == NLA_HDRLEN + a.plen

(* Byte offset of attribute k of stream s, relative to the first one. *)
Offset(s, k) ==
    LET off[i \in 0..Len(s)] == IF i = 0 THEN 0
                                ELSE off[i - 1] + NLA_ALIGN(NlaLen(s[i]))
    IN  off[k - 1]
PayloadLen(s) == Offset(s, Len(s) + 1)

(* The headers the client can read at offset p of stream s: the attribute *)
(* that starts there, the zeroes xnl_recv's memset left past the message, *)
(* or, in the middle of a payload, whatever bytes are there.              *)
Garbage == {[type |-> t, nla_len |-> l, val |-> 0] :
               t \in {XNL_ATTR_GENMSG, XNL_ATTR_MAX}, l \in {0, 8}}
HeadersAt(s, p) ==
    IF \E k \in 1..Len(s) : Offset(s, k) = p
    THEN LET k == CHOOSE k \in 1..Len(s) : Offset(s, k) = p
         IN  {[type |-> s[k].type, nla_len |-> NlaLen(s[k]), val |-> s[k].val]}
    ELSE IF p >= PayloadLen(s) THEN {[type |-> 0, nla_len |-> 0, val |-> 0]}
    ELSE Garbage

(* xnl_msg_set_hdr and xnl_msg_add_int_attr: a request is its length and  *)
(* the attribute types appended so far; their values are the fields of    *)
(* the xcmd x they are copied from (if_idx, qparm.idx, flags, ...).       *)
XnlMsgSetHdr(family, op, x) ==
    [family |-> family, op |-> op, len |-> HDRLEN, attrs |-> <<>>, x |-> x]
XnlMsgAddIntAttr(req, t) ==
    [req EXCEPT !.len = @ + NLA_ALIGN(4 + NLA_HDRLEN), !.attrs = Append(@, t)]

(* Mutant: q start/stop/del/dump forget the QFLAG attribute. *)
EncodeCmdNoQflag(family, op, x) ==
    LET r0 == XnlMsgAddIntAttr(XnlMsgSetHdr(family, op, x), XNL_ATTR_DEV_IDX)
        q  == XnlMsgAddIntAttr(XnlMsgAddIntAttr(r0, XNL_ATTR_QIDX), XNL_ATTR_QFLAG)
    IN  IF op \in {"Q_START", "Q_STOP", "Q_DEL", "Q_DUMP"}
        THEN XnlMsgAddIntAttr(r0, XNL_ATTR_QIDX)
        ELSE q

(* The request xnl_send_cmd builds for op (lines 322-360). *)
EncodeCmd(family, op, x) ==
    LET wrbsz == "WRBSZ" \in x.q.sflags
        r0 == XnlMsgAddIntAttr(XnlMsgSetHdr(family, op, x), XNL_ATTR_DEV_IDX)
        q  == XnlMsgAddIntAttr(XnlMsgAddIntAttr(r0, XNL_ATTR_QIDX), XNL_ATTR_QFLAG)
        a  == XnlMsgAddIntAttr(XnlMsgAddIntAttr(q, XNL_ATTR_QRNGSZ), XNL_ATTR_QBUFSZ)
        d  == XnlMsgAddIntAttr(XnlMsgAddIntAttr(q, XNL_ATTR_RANGE_START), XNL_ATTR_RANGE_END)
    IN  CASE op \in {"DEV_LIST", "DEV_INFO", "Q_LIST"} -> r0
          [] op = "Q_ADD" -> IF wrbsz THEN XnlMsgAddIntAttr(a, XNL_ATTR_WRB_DESC_SIZE) ELSE a
          [] op \in {"Q_START", "Q_STOP", "Q_DEL", "Q_DUMP"} -> q
          [] op \in {"Q_DESC", "Q_WRB"} -> d
          [] OTHER -> r0

(* The kernel parses the attributes that lie within nlmsg_len. *)
Received(req) == {req.attrs[k] : k \in {j \in 1..Len(req.attrs) : HDRLEN + 8 * j <= req.len}}

(***************************************************************************)
(* The kernel side, from spec section 4.4 (nl.c is not in this            *)
(* repository): the attributes each opcode requires, and the replies.     *)
(***************************************************************************)
Mandatory(op) ==
    CASE op = "DEV_LIST" -> {}
      [] op \in {"DEV_INFO", "Q_LIST"} -> {XNL_ATTR_DEV_IDX}
      [] op \in {"Q_ADD", "Q_START", "Q_STOP", "Q_DEL", "Q_DUMP"} ->
             {XNL_ATTR_DEV_IDX, XNL_ATTR_QIDX, XNL_ATTR_QFLAG}
      [] op \in {"Q_DESC", "Q_WRB"} ->
             {XNL_ATTR_DEV_IDX, XNL_ATTR_QIDX, XNL_ATTR_QFLAG,
              XNL_ATTR_RANGE_START, XNL_ATTR_RANGE_END}
      [] OTHER -> {XNL_ATTR_DEV_IDX}

InfoOrder == <<XNL_ATTR_PCI_BUS, XNL_ATTR_PCI_DEV, XNL_ATTR_PCI_FUNC,
               XNL_ATTR_DEV_CFG_BAR, XNL_ATTR_DEV_USR_BAR, XNL_ATTR_DEV_QSET_MAX>>
(* A newer driver may append an attribute type this client does not know. *)
Extra == IF NewerAttrs THEN {<<>>, <<Attr(XNL_ATTR_MAX, 4, 0)>>} ELSE {<<>>}
OkReplies(op) ==
    IF op = "DEV_INFO"
    THEN {[i \in 1..Len(InfoOrder) |-> Attr(InfoOrder[i], 4, v[i])] \o x :
             v \in [1..Len(InfoOrder) -> Vals], x \in Extra}
    ELSE {<<Attr(XNL_ATTR_GENMSG, n, 0)>> \o x : n \in MsgLens, x \in Extra}
(* The controller's CTRL_CMD_GETFAMILY reply: the name, then the id. *)
FamilyReply(vf) == <<Attr(CTRL_ATTR_FAMILY_NAME, 7, 0),
                     Attr(CTRL_ATTR_FAMILY_ID, 2, FamilyIdOf(vf))>>

AttrTypes == 0..(XNL_ATTR_MAX - 1)
Labels == {"start", "pf_send", "pf_close", "vf_connect", "vf_send", "vf_close",
           "info", "after_info", "op", "decode", "switch", "close", "exit"}

VARIABLES
    argv,      \* the command line
    xcmd,      \* what parse_cmd filled: op, vf, if_idx and the qparm fields
    sent,      \* ghost: the requests the kernel received from this process
    famReg,    \* famReg[vf]: the family "xnl_pf"/"xnl_vf" is registered
    mpc,       \* where main() is
    cont,      \* where xnl_send_cmd returns to after decoding
    cbfd,      \* cb.fd
    fds,       \* sockets this process opened and has not closed
    nsock,     \* sockets opened so far
    family,    \* cb.family
    peer,      \* the server the last xnl_connect asked for
    seq,       \* cb.snd_seq
    rv,        \* main's rv
    curOp,     \* the opcode of the request being answered (hdr->g.cmd)
    reply,     \* the attribute stream of the reply being decoded
    dp,        \* recv_attrs: p, as an offset into the attribute stream
    maxlen,    \* recv_attrs: maxlen
    mask,      \* xcmd->attr_mask, as a set of types
    vals,      \* xcmd->attrs[]
    qmax,      \* xcmd->qmax
    failed,    \* ghost: a connect, send or receive of main failed
    misrouted, \* ghost: a command was addressed to another family id
    missingAttr, \* ghost: the kernel refused a request for a missing attribute
    exitCode   \* the process exit status

vars == <<argv, xcmd, sent, famReg, mpc, cont, cbfd, fds, nsock, family, peer, seq, rv,
          curOp, reply, dp, maxlen, mask, vals, qmax, failed, misrouted,
          missingAttr, exitCode>>
decodeVars == <<curOp, reply, dp, maxlen, mask, vals, qmax>>
ghostVars == <<sent, misrouted, missingAttr>>

(* main's return status when parse_cmd does not return 0 (line 388),   *)
(* or the exit status usage() and the version banner choose; a process  *)
(* killed by SIGSEGV is reported by the shell as 128 + 11.              *)
ParseExit(end) ==
    CASE end = "einval" -> {(-EINVAL) % 256}
      [] end = "usage_err" -> {1}
      [] end \in {"usage_out", "version"} -> {0}
      [] end = "segv" -> {139}
      [] end = "garbage" -> 0..255

Init ==
    /\ argv \in Argvs
    /\ \E r \in ParseCmd(argv) :
          /\ xcmd = r.x
          /\ IF r.end = "ok" THEN mpc = "start" /\ exitCode = 0
             ELSE mpc = "exit" /\ exitCode \in ParseExit(r.end)
    /\ famReg \in [Servers -> BOOLEAN]
    /\ cont = "start" /\ sent = {}
    /\ cbfd = 0 /\ fds = {} /\ nsock = 0
    /\ family = 0 /\ peer = FALSE /\ seq = 0 /\ rv = 0
    /\ curOp = xcmd.op /\ reply = <<>> /\ dp = 0 /\ maxlen = 0
    /\ mask = {} /\ vals = [t \in AttrTypes |-> 0] /\ qmax = 0
    /\ failed = FALSE /\ misrouted = FALSE /\ missingAttr = FALSE

(* xnl_send: the request carries cb->snd_seq, which is then incremented. *)
XnlSend == seq' = seq + 1

(* xnl_close: close(cb->fd), whatever cb->fd holds. *)
XnlClose == fds' = fds \ {cbfd}

(* Mutant: the family id is looked for right after the name attribute's *)
(* nla_len, without NLA_ALIGN.                                            *)
XnlConnectUnalignedId(vf, onOk, onFail) ==
    /\ peer' = vf
    /\ cbfd' = 3 + nsock /\ fds' = fds \cup {3 + nsock} /\ nsock' = nsock + 1
    /\ seq' = seq + 1 /\ famReg[vf]
    /\ \E h \in HeadersAt(FamilyReply(vf), NlaLen(FamilyReply(vf)[1])) :
          family' = IF h.type = CTRL_ATTR_FAMILY_ID THEN h.val ELSE family
    /\ rv' = 0 /\ mpc' = onOk /\ failed' = failed
    /\ UNCHANGED <<argv, xcmd, famReg, cont, decodeVars, ghostVars, exitCode>>

(* xnl_connect (lines 81-159), with xnl_msg_alloc, xnl_send and xnl_recv. *)
XnlConnect(vf, onOk, onFail) ==
    /\ peer' = vf
    /\ \/ /\ \/ rv' = -ENOMEM        \* xnl_msg_alloc fails
             \/ rv' = -1             \* socket() fails: rv = fd
          /\ UNCHANGED <<cbfd, fds, nsock, family, seq>>
          /\ mpc' = onFail
       \/ /\ cbfd' = 3 + nsock
          /\ fds' = fds \cup {3 + nsock}
          /\ nsock' = nsock + 1
          /\ \/ /\ rv' = -1 /\ mpc' = onFail   \* bind() fails
                /\ UNCHANGED <<family, seq>>
             \/ /\ XnlSend
                /\ \/ /\ rv' = -1 /\ mpc' = onFail     \* send, recv or NLMSG_ERROR
                      /\ UNCHANGED family
                   \/ /\ famReg[vf]
                      /\ \E h \in HeadersAt(FamilyReply(vf),
                                            NLA_ALIGN(NlaLen(FamilyReply(vf)[1]))) :
                            family' = IF h.type = CTRL_ATTR_FAMILY_ID THEN h.val ELSE family
                      /\ rv' = 0 /\ mpc' = onOk
    /\ failed' = (failed \/ rv' # 0)
    /\ UNCHANGED <<argv, xcmd, famReg, cont, decodeVars, ghostVars, exitCode>>

(* xnl_send_cmd (lines 293-374) up to the reply's decoding.  The kernel  *)
(* routes the request by family and refuses one missing an attribute.   *)
XnlSendCmd(op, onDone) ==
    LET req == EncodeCmd(family, op, xcmd)
        routed == req.family = FamilyIdOf(peer)
        complete == Mandatory(op) \subseteq Received(req)
    IN
    /\ \/ /\ rv' = -ENOMEM /\ failed' = TRUE /\ mpc' = onDone   \* xnl_msg_alloc
          /\ UNCHANGED <<seq, cont, decodeVars, ghostVars>>
       \/ /\ XnlSend
          /\ sent' = IF routed THEN sent \cup {req} ELSE sent
          /\ misrouted' = (misrouted \/ ~routed)
          /\ missingAttr' = (missingAttr \/ (routed /\ ~complete))
          /\ \/ /\ rv' = -1 /\ failed' = TRUE /\ mpc' = onDone  \* send, recv, NLMSG_ERROR
                /\ UNCHANGED <<cont, decodeVars>>
             \/ /\ routed /\ complete
                /\ \E s \in OkReplies(op) :
                     /\ reply' = s
                     /\ maxlen' = PayloadLen(s)   \* nlmsg_len - NLMSG_LENGTH(GENL_HDRLEN)
                /\ curOp' = op /\ dp' = 0 /\ mask' = {}
                /\ mpc' = "decode" /\ cont' = onDone
                /\ UNCHANGED <<rv, failed, vals, qmax>>
    /\ UNCHANGED <<argv, xcmd, famReg, cbfd, fds, nsock, family, peer, exitCode>>

(* Mutant: p and maxlen advance by nla_len without NLA_ALIGN. *)
RecvAttrsStepNoAlign ==
    /\ mpc = "decode" /\ maxlen > 0
    /\ \E na \in HeadersAt(reply, dp) :
         /\ na.type < XNL_ATTR_MAX
         /\ mask' = mask \cup {na.type}
         /\ vals' = IF na.type \in {XNL_ATTR_GENMSG, XNL_ATTR_DRV_INFO} THEN vals
                    ELSE [vals EXCEPT ![na.type] = na.val]
         /\ dp' = dp + na.nla_len
         /\ maxlen' = maxlen - na.nla_len
    /\ UNCHANGED <<argv, xcmd, famReg, mpc, cont, cbfd, fds, nsock, family, peer, seq, rv,
                   curOp, reply, qmax, failed, ghostVars, exitCode>>

(* Mutant: the loop forgets maxlen -= len. *)
RecvAttrsStepNoAdvance ==
    /\ mpc = "decode" /\ maxlen > 0
    /\ \E na \in HeadersAt(reply, dp) :
         /\ na.type < XNL_ATTR_MAX
         /\ mask' = mask \cup {na.type}
         /\ vals' = IF na.type \in {XNL_ATTR_GENMSG, XNL_ATTR_DRV_INFO} THEN vals
                    ELSE [vals EXCEPT ![na.type] = na.val]
         /\ dp' = dp + NLA_ALIGN(na.nla_len)
         /\ maxlen' = maxlen
    /\ UNCHANGED <<argv, xcmd, famReg, mpc, cont, cbfd, fds, nsock, family, peer, seq, rv,
                   curOp, reply, qmax, failed, ghostVars, exitCode>>

(* Mutant: the bound check is off by one (nla_type > XNL_ATTR_MAX), so   *)
(* type XNL_ATTR_MAX sets a bit past attr_mask's types and writes attrs[] *)
(* one past its end.                                                      *)
RecvAttrsStepOffByOne ==
    /\ mpc = "decode" /\ maxlen > 0
    /\ \E na \in HeadersAt(reply, dp) :
         /\ na.type <= XNL_ATTR_MAX
         /\ mask' = mask \cup {na.type}
         /\ vals' = IF na.type \in {XNL_ATTR_GENMSG, XNL_ATTR_DRV_INFO} THEN vals
                    ELSE [t \in DOMAIN vals \cup {na.type} |->
                            IF t = na.type THEN na.val ELSE vals[t]]
         /\ dp' = dp + NLA_ALIGN(na.nla_len)
         /\ maxlen' = maxlen - NLA_ALIGN(na.nla_len)
    /\ UNCHANGED <<argv, xcmd, famReg, mpc, cont, cbfd, fds, nsock, family, peer, seq, rv,
                   curOp, reply, qmax, failed, ghostVars, exitCode>>

(* One iteration of the recv_attrs loop (lines 225-248) on a known type. *)
RecvAttrsStep ==
    /\ mpc = "decode" /\ maxlen > 0
    /\ \E na \in HeadersAt(reply, dp) :
         /\ na.type < XNL_ATTR_MAX
         /\ mask' = mask \cup {na.type}
         /\ vals' = IF na.type \in {XNL_ATTR_GENMSG, XNL_ATTR_DRV_INFO} THEN vals
                    ELSE [vals EXCEPT ![na.type] = na.val]
         /\ dp' = dp + NLA_ALIGN(na.nla_len)
         /\ maxlen' = maxlen - NLA_ALIGN(na.nla_len)
    /\ UNCHANGED <<argv, xcmd, famReg, mpc, cont, cbfd, fds, nsock, family, peer, seq, rv,
                   curOp, reply, qmax, failed, ghostVars, exitCode>>

(* recv_attrs meets a type >= XNL_ATTR_MAX and returns -EINVAL (229-233). *)
RecvAttrsUnknown ==
    /\ mpc = "decode" /\ maxlen > 0
    /\ \E na \in HeadersAt(reply, dp) : na.type >= XNL_ATTR_MAX
    /\ mpc' = "switch"
    /\ UNCHANGED <<argv, xcmd, famReg, cont, cbfd, fds, nsock, family, peer, seq, rv,
                   decodeVars, failed, ghostVars, exitCode>>

(* recv_nl_msg after recv_attrs, whose result it ignores (253-290), and   *)
(* the return of xnl_send_cmd with rv = 0.                               *)
RecvNlMsg ==
    /\ \/ mpc = "decode" /\ maxlen <= 0
       \/ mpc = "switch"
    /\ qmax' = IF curOp = "DEV_INFO" THEN vals[XNL_ATTR_DEV_QSET_MAX] ELSE qmax
    /\ rv' = 0
    /\ mpc' = cont
    /\ UNCHANGED <<argv, xcmd, famReg, cont, cbfd, fds, nsock, family, peer, seq,
                   curOp, reply, dp, maxlen, mask, vals, failed, ghostVars, exitCode>>

(***************************************************************************)
(* main() (lines 377-435).                                                 *)
(***************************************************************************)
MainStart ==
    /\ mpc = "start"
    /\ IF xcmd.op = "DEV_LIST"
       THEN XnlConnect(FALSE, "pf_send", "pf_close")
       ELSE XnlConnect(xcmd.vf, "info", "close")

PfSend == mpc = "pf_send" /\ XnlSendCmd(xcmd.op, "pf_close")

(* xnl_close, then memset(&cb, 0) before trying the VF server. *)
PfClose ==
    /\ mpc = "pf_close"
    /\ XnlClose
    /\ cbfd' = 0 /\ family' = 0 /\ seq' = 0
    /\ mpc' = "vf_connect"
    /\ UNCHANGED <<argv, xcmd, famReg, cont, nsock, peer, rv, decodeVars, failed,
                   ghostVars, exitCode>>

VfConnect == mpc = "vf_connect" /\ XnlConnect(TRUE, "vf_send", "vf_close")

VfSend == mpc = "vf_send" /\ XnlSendCmd(xcmd.op, "vf_close")

VfClose ==
    /\ mpc = "vf_close"
    /\ XnlClose
    /\ mpc' = "close"
    /\ UNCHANGED <<argv, xcmd, famReg, cont, cbfd, nsock, family, peer, seq, rv,
                   decodeVars, failed, ghostVars, exitCode>>

(* xcmd.op = XNL_CMD_DEV_INFO; xnl_send_cmd; xcmd.op = op. *)
Info == mpc = "info" /\ XnlSendCmd("DEV_INFO", "after_info")

(* After DEV_INFO: give up, run reg_proc_cmd for reg dump/read/write      *)
(* (regs.c, not modelled: it succeeds or fails), or send the command.     *)
RegOps == {"REG_DUMP", "REG_RD", "REG_WRT"}
AfterInfo ==
    /\ mpc = "after_info"
    /\ \/ rv < 0 /\ mpc' = "close" /\ UNCHANGED <<rv, failed>>
       \/ /\ rv >= 0 /\ xcmd.op \in RegOps
          /\ \E r \in {0, -1} : rv' = r /\ failed' = (failed \/ r < 0)
          /\ mpc' = "close"
       \/ rv >= 0 /\ xcmd.op \notin RegOps /\ mpc' = "op" /\ UNCHANGED <<rv, failed>>
    /\ UNCHANGED <<argv, xcmd, famReg, cont, cbfd, fds, nsock, family, peer, seq,
                   decodeVars, ghostVars, exitCode>>

OpSend == mpc = "op" /\ XnlSendCmd(xcmd.op, "close")

(* close: xnl_close(&cb); return rv, which the C runtime reduces mod 256. *)
MainClose ==
    /\ mpc = "close"
    /\ XnlClose
    /\ exitCode' = rv % 256
    /\ mpc' = "exit"
    /\ UNCHANGED <<argv, xcmd, famReg, cont, cbfd, nsock, family, peer, seq, rv,
                   decodeVars, failed, ghostVars>>

Next ==
    \/ MainStart \/ PfSend \/ PfClose \/ VfConnect \/ VfSend \/ VfClose
    \/ Info \/ AfterInfo \/ OpSend \/ MainClose
    \/ RecvAttrsStep \/ RecvAttrsUnknown \/ RecvNlMsg

(* The client is one sequential process, and the kernel answers every   *)
(* request (a reply or an NLMSG_ERROR), so main keeps running.           *)
Spec == Init /\ [][Next]_vars /\ WF_vars(Next)

-----------------------------------------------------------------------------
TypeOK ==
    /\ argv \in Argvs
    /\ mpc \in Labels /\ cont \in Labels
    /\ cbfd \in {0} \cup Fds /\ fds \subseteq Fds /\ nsock \in 0..2
    /\ family \in {0, 16, 17} /\ peer \in BOOLEAN /\ seq \in 0..3
    /\ rv \in {0, -1, -ENOMEM}
    /\ dp \in Nat /\ maxlen \in Int
    /\ mask \subseteq AttrTypes /\ vals \in [AttrTypes -> Vals \cup {0}]
    /\ failed \in BOOLEAN /\ misrouted \in BOOLEAN /\ missingAttr \in BOOLEAN
    /\ exitCode \in 0..255

(* When the recv_attrs loop ends normally, attr_mask is exactly the set  *)
(* of types in the reply and attrs[] holds each integer the kernel sent: *)
(* the loop's NLA_ALIGN arithmetic lands on every attribute and on       *)
(* nothing else.                                                          *)
DecodeMatchesReply ==
    (mpc = "decode" /\ maxlen <= 0) =>
        /\ mask = {reply[k].type : k \in 1..Len(reply)}
        /\ \A k \in 1..Len(reply) :
              reply[k].type \notin {XNL_ATTR_GENMSG, XNL_ATTR_DRV_INFO} =>
                 vals[reply[k].type] = reply[k].val

(* Every command is addressed to the family id the controller gave for  *)
(* the server xnl_connect asked for (the id is read from the second      *)
(* attribute of the GETFAMILY reply).                                    *)
NoMisroutedCommand == ~misrouted

(* The kernel never refuses a request of this client for a missing       *)
(* mandatory attribute: xnl_send_cmd encodes each opcode's attributes    *)
(* within nlmsg_len.                                                     *)
NoMissingAttribute == ~missingAttr

(* Every run of the client ends: the recv_attrs loop advances on every   *)
(* reply and main reaches its return.                                    *)
Terminates == <>(mpc = "exit")

(* Every queue request the kernel receives names one mode and one        *)
(* direction in XNL_ATTR_QFLAG: read_qparm refuses "mode mm ... mode st"  *)
(* and "dir h2c ... dir c2h" and defaults a missing one to mm and h2c.    *)
QOps == {"Q_ADD", "Q_START", "Q_STOP", "Q_DEL", "Q_DUMP", "Q_DESC", "Q_WRB"}
OneOf(flags, pair) == \E f \in pair : flags \cap pair = {f}
QueueFlagsWellFormed ==
    \A r \in sent : r.op \in QOps =>
        OneOf(r.x.q.flags, {"MM", "ST"}) /\ OneOf(r.x.q.flags, {"H2C", "C2H"})

(* The device a command is sent to is the one the user named: the        *)
(* XNL_ATTR_DEV_IDX of every request for qdma<N> or qdmavf<N> is N        *)
(* (spec section 6, "qdma<N>"), as parse_ifname reads the name.           *)
DeviceIndexMatchesName ==
    \A r \in sent : r.op # "DEV_LIST" => r.x.if_idx = DecimalValue(argv[2].d)

(* A descriptor or writeback dump asks for a range whose start is not     *)
(* past its end: read_range's check "v2 < v1" ("invalid range") is meant  *)
(* to refuse "desc 5 2".                                                  *)
DescRangeOrdered ==
    \A r \in sent : r.op \in {"Q_DESC", "Q_WRB"} => r.x.q.range_start <= r.x.q.range_end

(* The exit status is non-zero whenever a request of the invocation      *)
(* failed (spec section 6: exit 0 on success only).                      *)
ExitReflectsFailure == (mpc = "exit" /\ failed) => exitCode # 0

=============================================================================
