------------------------------ MODULE CmdParse ------------------------------
(***************************************************************************)
(* parse_cmd of the dma-ctl client (src/user/cli/cmd_parse.c) as pure     *)
(* operators: from an argv to the xcmd_info it fills, or to the way the    *)
(* program ends instead (EINVAL, usage(), a NULL argv entry given to       *)
(* strcmp, or the uninitialized rv of parse_q_cmd).                        *)
(*                                                                         *)
(* An argv word is its letters s followed by its digits d: "qdma256" is    *)
(* [s |-> "qdma", d |-> <<2,5,6>>], "010" is [s |-> "", d |-> <<0,1,0>>]. *)
(* Integers are converted the way strtoul(s, &p, 0) and the unsigned char *)
(* store of if_idx convert them.  C index i is argv[i + 1].             *)
(***************************************************************************)
EXTENDS Naturals, Sequences, SequencesExt

Word(s, d) == [s |-> s, d |-> d]
Kw(s) == Word(s, <<>>)
Num(d) == Word("", d)
IsKw(w, k) == w.s = k /\ w.d = <<>>          \* !strcmp(argv[i], k)

EINVAL == 22
QIDX_INVALID == 65535                         \* XNL_QIDX_INVALID

(* F(v), with v computed once: TLC re-evaluates a LET name or an operator *)
(* argument at every use when it profiles the evaluation, and the loop   *)
(* state below is used several times per step.                           *)
With(v, F(_)) == CHOOSE y \in {F(p) : p \in {v}} : TRUE

(* The value of digits d in base b.  The uint32_t store of strtoul's    *)
(* result is not reduced here: TLC's integers are 32-bit signed, and the *)
(* numbers of the command lines checked stay far below 2^31.             *)
DigitsValue(d, b) == FoldLeft(LAMBDA acc, x : acc * b + x, 0, d)

(* strtoul(s, &p, 0) on a word, and whether *p is then '\0': a leading 0 *)
(* selects octal, which stops at the first 8 or 9.                       *)
ArgReadInt(w) ==
    IF w.s # "" THEN [ok |-> FALSE, v |-> 0]
    ELSE IF Len(w.d) > 1 /\ w.d[1] = 0
    THEN [ok |-> \A k \in 1..Len(w.d) : w.d[k] < 8, v |-> DigitsValue(w.d, 8)]
    ELSE [ok |-> TRUE, v |-> DigitsValue(w.d, 10)]

(* The spec's reading of a number: decimal digits. *)
DecimalValue(d) == DigitsValue(d, 10)

(* parse_ifname (lines 54-90): qdma<N> or qdmavf<N>, fewer than 10      *)
(* characters; if_idx is an unsigned char.                               *)
ParseIfname(w) ==
    LET ok  == /\ Len(w.s) + Len(w.d) < 10
               /\ w.s \in {"qdma", "qdmavf"}
               /\ ArgReadInt(Num(w.d)).ok
    IN  [ok |-> ok, vf |-> w.s = "qdmavf", if_idx |-> ArgReadInt(Num(w.d)).v % 256]

-----------------------------------------------------------------------------
(* read_qparm (lines 237-405).  The loop state: the C index i, an error,  *)
(* and the fields of xcmd_q_parm; flags and sflags are sets of bit names. *)
QparmInit(i) == [i |-> i, err |-> FALSE, idx |-> QIDX_INVALID, flags |-> {},
                 sflags |-> {}, entry_size |-> 0, range_start |-> 0, range_end |-> 0]

(* next_arg_read_int: the integer after argv[i], read into field f. *)
NextInt(argv, st, bit) ==
    LET r == ArgReadInt(argv[st.i + 2])
    IN  IF st.i + 1 >= Len(argv) \/ ~r.ok THEN [st EXCEPT !.err = TRUE]
        ELSE [st EXCEPT !.i = @ + 2, !.sflags = @ \cup {bit}]

(* One keyword with a choice of two words, as mode and dir are read. *)
Choice(argv, st, bit, map) ==
    IF st.i + 1 >= Len(argv) \/ ~\E k \in DOMAIN map : IsKw(argv[st.i + 2], k)
    THEN [st EXCEPT !.err = TRUE]
    ELSE LET k == CHOOSE k \in DOMAIN map : IsKw(argv[st.i + 2], k)
         IN  [st EXCEPT !.i = @ + 2, !.flags = @ \cup {map[k]}, !.sflags = @ \cup {bit}]

(* read_range (lines 203-224) after desc or wrb.  Its check "v2 < v1"    *)
(* compares the two pointers &range_end and &range_start, never the      *)
(* values, and &range_end is the higher address: no range is refused.    *)
ReadRange(argv, st, bit) ==
    LET j == st.i + 1
        a == ArgReadInt(argv[j + 1])
        b == ArgReadInt(argv[j + 2])
    IN  IF j >= Len(argv) \/ ~a.ok \/ j + 1 >= Len(argv) \/ ~b.ok
        THEN [st EXCEPT !.err = TRUE]
        ELSE [st EXCEPT !.i = j + 2, !.range_start = a.v, !.range_end = b.v,
                        !.sflags = @ \cup {bit}]

(* One iteration of the while loop of read_qparm. *)
QparmStep(argv, st) ==
    LET w == argv[st.i + 1]
        n == ArgReadInt(argv[st.i + 2])
    IN
    CASE IsKw(w, "idx") ->
           LET s2 == NextInt(argv, st, "IDX") IN
           IF s2.err THEN s2 ELSE [s2 EXCEPT !.idx = n.v]
      [] IsKw(w, "mode") -> Choice(argv, st, "MODE", [mm |-> "MM", st |-> "ST"])
      [] IsKw(w, "dir") -> Choice(argv, st, "DIR", [h2c |-> "H2C", c2h |-> "C2H"])
      [] IsKw(w, "cdev") ->
           LET s2 == NextInt(argv, st, "CDEV") IN
           IF s2.err \/ n.v \notin {0, 1} THEN [st EXCEPT !.err = TRUE]
           ELSE [s2 EXCEPT !.flags = IF n.v = 1 THEN @ \cup {"CDEV"} ELSE @]
      [] IsKw(w, "bufsz") -> NextInt(argv, st, "BUFSZ")
      [] IsKw(w, "ringsz") -> NextInt(argv, st, "RNGSZ")
      [] IsKw(w, "desc") -> ReadRange(argv, st, "DESC")
      [] IsKw(w, "wrb") -> ReadRange(argv, st, "WRB")
      [] IsKw(w, "wrbsz") ->
           \* sscanf("%hhu"): a decimal number mod 256, or no assignment
           IF st.i + 1 >= Len(argv) THEN [st EXCEPT !.err = TRUE]
           ELSE LET x == argv[st.i + 2] IN
                [st EXCEPT !.i = @ + 2, !.sflags = @ \cup {"WRBSZ"},
                           !.entry_size = IF x.s = "" /\ x.d # <<>>
                                          THEN DigitsValue(x.d, 10) % 256 ELSE @]
      [] OTHER -> [st EXCEPT !.err = TRUE]

(* The loop runs while i < argc; each iteration consumes a word or fails. *)
QparmLoop(argv, i) ==
    LET st[k \in 0..Len(argv)] ==
          IF k = 0 THEN QparmInit(i)
          ELSE With(st[k - 1], LAMBDA s : IF s.err \/ s.i >= Len(argv) THEN s
                                          ELSE QparmStep(argv, s))
    IN  st[Len(argv)]

(* Mutant: read_qparm without its "cannot be combined" checks. *)
ReadQparmNoCombineCheck(argv, i, required) ==
    LET Def(s, bit, dflt) ==
            IF bit \in s.sflags THEN s
            ELSE [s EXCEPT !.flags = @ \cup {dflt}, !.sflags = @ \cup {bit}]
        Check(st) ==
            IF st.err \/ ~(required \subseteq st.sflags) THEN [st EXCEPT !.err = TRUE]
            ELSE With(Def(st, "MODE", "MM"), LAMBDA s : Def(s, "DIR", "H2C"))
    IN  With(QparmLoop(argv, i), Check)

(* After the loop: the required bits, then mode and dir each refused if  *)
(* both values were given and defaulted to mm and h2c if neither was.    *)
ReadQparm(argv, i, required) ==
    LET Def(s, bit, a, b, dflt) ==
            IF bit \in s.sflags THEN [s EXCEPT !.err = @ \/ {a, b} \subseteq s.flags]
            ELSE [s EXCEPT !.flags = @ \cup {dflt}, !.sflags = @ \cup {bit}]
        Check(st) ==
            IF st.err \/ ~(required \subseteq st.sflags) THEN [st EXCEPT !.err = TRUE]
            ELSE With(Def(st, "MODE", "MM", "ST", "MM"),
                      LAMBDA s : Def(s, "DIR", "H2C", "C2H", "H2C"))
    IN  With(QparmLoop(argv, i), Check)

-----------------------------------------------------------------------------
(* What parse_cmd leaves: how it ends ("ok", "einval", "usage_err",       *)
(* "usage_out", "version", "segv" for strcmp on the NULL argv[argc], or   *)
(* "garbage" for a negative uninitialized rv), the C index i reached, and *)
(* the xcmd_info fields the client uses.                                  *)
XcmdInit == [op |-> "DEV_LIST", vf |-> FALSE, if_idx |-> 0,
             q |-> [QparmInit(0) EXCEPT !.idx = 0]]
Res(end, i, x) == [end |-> end, i |-> i, x |-> x]

(* "[bar <N>] <addr>" of reg read and reg write, at C index j: the index *)
(* of the address, or 0 when a word is missing or not an integer.        *)
RegAddr(argv, j) ==
    IF j >= Len(argv) THEN 0
    ELSE IF IsKw(argv[j + 1], "bar")
         THEN IF j + 2 >= Len(argv) \/ ~ArgReadInt(argv[j + 2]).ok
                 \/ ~ArgReadInt(argv[j + 3]).ok THEN 0 ELSE j + 2
         ELSE IF ArgReadInt(argv[j + 1]).ok THEN j ELSE 0

(* parse_reg_cmd (lines 139-201), at C index 3. *)
ParseRegCmd(argv, x) ==
    LET w == argv[4]
        a == RegAddr(argv, 4)
    IN
    IF Len(argv) = 3 THEN {Res("segv", 3, x)}
    ELSE IF IsKw(w, "dump") THEN {Res("ok", 4, [x EXCEPT !.op = "REG_DUMP"])}
    ELSE IF IsKw(w, "read")
    THEN IF a = 0 THEN {Res("einval", 3, x)} ELSE {Res("ok", a + 1, [x EXCEPT !.op = "REG_RD"])}
    ELSE IF IsKw(w, "write")
    THEN IF a = 0 \/ a + 1 >= Len(argv) \/ ~ArgReadInt(argv[a + 2]).ok
         THEN {Res("einval", 3, x)} ELSE {Res("ok", a + 2, [x EXCEPT !.op = "REG_WRT"])}
    ELSE {Res("ok", 3, x)}

QVerbs == [add |-> "Q_ADD", start |-> "Q_START", stop |-> "Q_STOP",
           del |-> "Q_DEL", dump |-> "Q_DUMP"]

(* parse_q_cmd (lines 407-479), at C index 3. *)
ParseQCmd(argv, x) ==
    LET w == argv[4]
        v == CHOOSE v \in DOMAIN QVerbs : IsKw(w, v)
        \* line 431: "flags & (C2H | ST) == (C2H | ST)" is "flags & 1", the ST bit
        AddDefault(r) ==
            IF v = "add" /\ "ST" \in r.flags /\ "WRBSZ" \notin r.sflags
            THEN [r EXCEPT !.entry_size = 3, !.sflags = @ \cup {"WRBSZ"}] ELSE r
        Op(q) == CASE v = "dump" /\ "DESC" \in q.sflags -> "Q_DESC"
                   [] v = "dump" /\ "WRB" \in q.sflags -> "Q_WRB"
                   [] OTHER -> QVerbs[v]
        Result(q) ==
            IF q.err \/ (v = "dump" /\ {"DESC", "WRB"} \subseteq q.sflags)
            THEN {Res("einval", 3, x)}
            ELSE {Res("ok", Len(argv), [x EXCEPT !.op = Op(q), !.q = q])}
    IN
    IF Len(argv) = 3 THEN {Res("segv", 3, x)}
    ELSE IF IsKw(w, "list") THEN {Res("ok", 4, [x EXCEPT !.op = "Q_LIST"])}
    ELSE IF \E u \in DOMAIN QVerbs : IsKw(w, u)
    THEN IF 4 >= Len(argv) THEN {Res("einval", 3, x)}
         ELSE With(With(ReadQparm(argv, 4, IF v = "add" THEN {} ELSE {"IDX"}), AddDefault),
                   Result)
    \* an unknown verb leaves rv uninitialized: negative, below argc, or not
    ELSE {Res("garbage", 3, x), Res("einval", 3, x), Res("ok", Len(argv), x)}

HelpWords == {"?", "-h", "help", "--help"}

(* parse_cmd (lines 490-552). *)
ParseCmd(argv) ==
    LET x0 == XcmdInit
        f  == ParseIfname(argv[2])
        x1 == [x0 EXCEPT !.vf = f.vf, !.if_idx = f.if_idx]
        Done(R) == {IF r.end = "ok" /\ r.i < Len(argv) THEN [r EXCEPT !.end = "einval"] ELSE r
                      : r \in R}
    IN
    IF Len(argv) = 1 THEN {Res("usage_err", 1, x0)}
    ELSE IF Len(argv) = 2 /\ \E h \in HelpWords : IsKw(argv[2], h) THEN {Res("usage_out", 2, x0)}
    ELSE IF Len(argv) = 2 /\ (IsKw(argv[2], "-v") \/ IsKw(argv[2], "--version"))
    THEN {Res("version", 2, x0)}
    ELSE IF IsKw(argv[2], "dev")
    THEN IF Len(argv) = 2 THEN {Res("segv", 2, x0)}          \* parse_dev_cmd
         ELSE IF IsKw(argv[3], "list") THEN Done({Res("ok", 3, [x0 EXCEPT !.op = "DEV_LIST"])})
         ELSE Done({Res("ok", 2, x0)})
    ELSE IF ~f.ok THEN {Res("einval", 1, x0)}
    ELSE IF Len(argv) = 2 THEN {Res("ok", 2, [x1 EXCEPT !.op = "DEV_INFO"])}
    ELSE IF IsKw(argv[3], "reg") THEN Done(ParseRegCmd(argv, x1))
    ELSE IF IsKw(argv[3], "q") THEN Done(ParseQCmd(argv, x1))
    ELSE {Res("einval", 2, x1)}

=============================================================================
