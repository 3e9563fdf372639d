-------------------------- MODULE MCClientSession --------------------------
(* TLC instance of ClientSession: command lines that reach every ending  *)
(* of parse_cmd and every opcode family of xnl_send_cmd's switch, one-bit *)
(* reported values, and GENMSG strings whose attribute length is          *)
(* unaligned (5) and aligned (8).                                         *)
EXTENDS ClientSession

P == Kw("dma-ctl")                    \* argv[0]
Q1 == Word("qdma", <<1>>)
N(k) == Num(<<k>>)
QAdd == <<P, Q1, Kw("q"), Kw("add")>>

MCArgvs == {
    <<P>>,                                            \* usage(stderr)
    <<P, Kw("-h")>>,                                  \* usage(stdout)
    <<P, Kw("dev")>>,                                 \* strcmp(NULL, "list")
    <<P, Kw("dev"), Kw("list")>>,
    <<P, Q1>>,                                        \* DEV_INFO
    <<P, Word("qdma", <<2, 5, 6>>)>>,                 \* if_idx is a char
    <<P, Word("qdmavf", <<0, 1, 0>>)>>,               \* strtoul base 0: octal
    <<P, Q1, Kw("q")>>,                               \* strcmp(NULL, "list")
    <<P, Q1, Kw("q"), Kw("list")>>,
    <<P, Q1, Kw("q"), Kw("foo")>>,                    \* rv uninitialized
    QAdd \o <<Kw("mode"), Kw("st"), Kw("dir"), Kw("c2h")>>,
    QAdd \o <<Kw("idx"), N(2), Kw("mode"), Kw("mm"), Kw("mode"), Kw("st")>>,
    <<P, Q1, Kw("q"), Kw("del"), Kw("idx"), N(2), Kw("dir"), Kw("c2h")>>,
    <<P, Q1, Kw("q"), Kw("dump"), Kw("idx"), N(2), Kw("desc"), N(2), N(1)>>,
    <<P, Q1, Kw("reg"), Kw("read"), Kw("bar"), N(2), N(4)>>
}
MCVals == {0, 1}
MCMsgLens == {1, 4}
=============================================================================
