----------------------------- MODULE RespStream -----------------------------
(***************************************************************************)
(* How the bytes of a client become commands: RespParser and RespBuilder   *)
(* (protocol/resp) and the receive buffer of Worker::Connection.  The      *)
(* client's requests are RESP values, one behind the other, and each read  *)
(* from the socket brings as many of the bytes as the network likes.       *)
(*                                                                         *)
(* A byte is a one-letter string, or "CR" or "LF".  A value is a record of *)
(* its type and its content; the content of a number is its decimal form.  *)
(* A parsing function returns Nil, for std::nullopt, or what it read with  *)
(* the rest of the view.  Numbers stay far inside int64_t.  FindCRLF is    *)
(* that of an x86-64 build without AVX2.                                   *)
(***************************************************************************)
EXTENDS Integers, Sequences, DashMap
LOCAL INSTANCE SequencesExt

CONSTANTS Pipelines,        \* the sequences of requests a client may send
          VecSize,          \* bytes in a vector register
          CompactThreshold  \* kReceiveBufferCompactThreshold

VARIABLE conn   \* the connection, see RespInit

CRLF == <<"CR", "LF">>

Digits == <<"0", "1", "2", "3", "4", "5", "6", "7", "8", "9">>

IsDigit(c) == \E i \in 1..10 : Digits[i] = c

DigitOf(c) == (CHOOSE i \in 1..10 : Digits[i] = c) - 1

From(s, i) == SubSeq(s, i, Len(s))

Least(S) == IF S = {} THEN 0 ELSE CHOOSE x \in S : \A y \in S : x <= y

-----------------------------------------------------------------------------
(* RespBuilder                                                             *)

\* A number in decimal.
RECURSIVE AppendInteger(_)
AppendInteger(n) ==
    IF n < 0 THEN <<"-">> \o AppendInteger(-n)
    ELSE IF n < 10 THEN <<Digits[n + 1]>>
    ELSE AppendInteger(n \div 10) \o <<Digits[(n % 10) + 1]>>

BuildBulkString(s) == <<"$">> \o AppendInteger(Len(s)) \o CRLF \o s \o CRLF

\* A RESP value as bytes; a value of no known type would be a null bulk string.
RECURSIVE Build(_)
Build(v) ==
    CASE v.type = "simple" -> <<"+">> \o v.value \o CRLF
      [] v.type = "error" -> <<"-">> \o v.value \o CRLF
      [] v.type = "integer" -> <<":">> \o v.value \o CRLF
      [] v.type = "bulk" -> BuildBulkString(v.value)
      [] v.type = "array" -> <<"*">> \o AppendInteger(Len(v.value)) \o CRLF
                             \o FlattenSeq([i \in DOMAIN v.value |-> Build(v.value[i])])
      [] v.type = "nullbulk" -> <<"$", "-", "1">> \o CRLF
      [] v.type = "nullarray" -> <<"*", "-", "1">> \o CRLF
      [] v.type = "boolean" -> <<"#">> \o v.value \o CRLF
      [] v.type = "double" -> <<",">> \o v.value \o CRLF
      [] v.type = "null" -> <<"_">> \o CRLF

-----------------------------------------------------------------------------
(* Lines and numbers                                                       *)

\* Where the block of byte i begins, unless i is the last of its block.
Block(i) == (i \div VecSize) * VecSize

\* The first CR of a whole block other than one that ends the view, if a LF
\* follows it in the block.
FindCRLF_SSE42(s) ==
    Least({i \in 1..Len(s) - 1 :
        /\ s[i] = "CR" /\ s[i + 1] = "LF"
        /\ i % VecSize # 0
        /\ Block(i) + VecSize <= Len(s) - 1
        /\ \A j \in Block(i) + 1..i - 1 : s[j] # "CR"})

FirstCRLF(s, from) == Least({i \in from..Len(s) - 1 : s[i] = "CR" /\ s[i + 1] = "LF"})

\* What is left of whole blocks is searched byte by byte.
Remainder(s, processed) == IF processed >= Len(s) - 1 THEN 0 ELSE FirstCRLF(s, processed + 1)

FoundOr(p, q) == IF p # 0 THEN p ELSE q

FindCRLF(s) == FoundOr(FindCRLF_SSE42(s), Remainder(s, (Len(s) \div VecSize) * VecSize))

LineAt(s, p) == IF p = 0 THEN Nil ELSE [line |-> SubSeq(s, 1, p - 1), rest |-> From(s, p + 2)]

ReadUntilCRLF(s) == LineAt(s, IF Len(s) >= 2 * VecSize THEN FindCRLF(s) ELSE FirstCRLF(s, 1))

CutBefore(s, i) == IF i = 0 THEN s ELSE SubSeq(s, 1, i - 1)

DigitPrefix(s) == CutBefore(s, Least({i \in DOMAIN s : ~IsDigit(s[i])}))

NumberOf(digits) == FoldLeft(LAMBDA n, c : 10 * n + DigitOf(c), 0, digits)

IsNegative(s) == s # <<>> /\ Head(s) = "-"

WithoutSign(s) == IF IsNegative(s) THEN Tail(s) ELSE s

Signed(s, digits) == IF IsNegative(s) THEN -NumberOf(digits) ELSE NumberOf(digits)

NumberFrom(s, digits) == IF digits = <<>> THEN Nil ELSE Signed(s, digits)

\* std::from_chars: whatever follows the number is ignored.
ParseInt(line) == NumberFrom(line, DigitPrefix(WithoutSign(line)))

NumberLine(s, body, n) ==
    IF n = 0 \/ Len(body) < n + 2 \/ SubSeq(body, n + 1, n + 2) # CRLF THEN Nil
    ELSE [number |-> Signed(s, SubSeq(body, 1, n)), rest |-> From(body, n + 3)]

\* Digits and nothing else up to the CRLF.
ParseIntLineFast(s, allow_negative) ==
    IF IsNegative(s) /\ ~allow_negative THEN Nil
    ELSE NumberLine(s, WithoutSign(s), Len(DigitPrefix(WithoutSign(s))))

-----------------------------------------------------------------------------
(* RespParser::Parse                                                       *)

Parsed(type, value, rest) == [value |-> [type |-> type, value |-> value], rest |-> rest]

HasForm(type, line) ==
    CASE type = "integer" -> ParseInt(line) # Nil
      [] type = "null" -> line = <<>>
      [] type = "boolean" -> line \in {<<"t">>, <<"f">>}
      [] type = "double" -> line # <<>> /\ DigitPrefix(line) = line
      [] OTHER -> TRUE

LineOf(type, l) ==
    IF l = Nil THEN Nil
    ELSE IF ~HasForm(type, l.line) THEN Nil
    ELSE Parsed(type, IF type = "integer" THEN AppendInteger(ParseInt(l.line)) ELSE l.line, l.rest)

\* ParseSimpleString, ParseError, ParseInteger, ParseNull, ParseBoolean and
\* ParseDoubleValue: one line, if it has the form of the type.
ParseLine(type, s) == LineOf(type, ReadUntilCRLF(s))

BulkOf(n, rest) ==
    IF n = Nil THEN Nil
    ELSE IF n = -1 THEN Parsed("nullbulk", <<>>, rest)
    ELSE IF n < 0 \/ Len(rest) < n + 2 THEN Nil
    ELSE Parsed("bulk", SubSeq(rest, 1, n), From(rest, n + 3))

BulkFrom(l) == IF l = Nil THEN Nil ELSE BulkOf(ParseInt(l.line), l.rest)

\* The two bytes behind the payload are skipped unseen.
ParseBulkString(s) == BulkFrom(ReadUntilCRLF(s))

RECURSIVE Parse(_)

RECURSIVE ParseElements(_, _, _, _)
ParseElements(s, count, arr, v) ==
    IF Len(arr) = count THEN Parsed("array", arr, s)
    ELSE IF v = Nil THEN Nil
    ELSE ParseElements(v.rest, count, Append(arr, v.value), Parse(v.rest))

ArrayOf(n, rest) ==
    IF n = Nil THEN Nil
    ELSE IF n = -1 THEN Parsed("nullarray", <<>>, rest)
    ELSE IF n < 0 THEN Nil
    ELSE ParseElements(rest, n, <<>>, Parse(rest))

ArrayFrom(l) == IF l = Nil THEN Nil ELSE ArrayOf(ParseInt(l.line), l.rest)

ParseArray(s) == ArrayFrom(ReadUntilCRLF(s))

Parse(s) ==
    IF s = <<>> THEN Nil
    ELSE CASE Head(s) = "+" -> ParseLine("simple", Tail(s))
           [] Head(s) = "-" -> ParseLine("error", Tail(s))
           [] Head(s) = ":" -> ParseLine("integer", Tail(s))
           [] Head(s) = "$" -> ParseBulkString(Tail(s))
           [] Head(s) = "*" -> ParseArray(Tail(s))
           [] Head(s) = "_" -> ParseLine("null", Tail(s))
           [] Head(s) = "#" -> ParseLine("boolean", Tail(s))
           [] Head(s) = "," -> ParseLine("double", Tail(s))
           [] OTHER -> Nil

-----------------------------------------------------------------------------
(* Commands                                                                *)

IsNull(v) == v.type \in {"null", "nullbulk", "nullarray"}

\* An argument is a string; errors, booleans, doubles and arrays are none.
ToCommandArg(v) ==
    IF v.type \in {"bulk", "simple", "integer"} THEN v
    ELSE IF IsNull(v) THEN [type |-> "nullbulk", value |-> <<>>]
    ELSE Nil

CommandOf(elements) == [name |-> Head(elements).value, args |-> Tail(elements)]

\* The slow path: from a value to a command.
ParseCommand(v) ==
    IF \/ v.type # "array"
       \/ v.value = <<>>
       \/ Head(v.value).type # "bulk"
       \/ \E i \in 2..Len(v.value) : ToCommandArg(v.value[i]) = Nil
    THEN Nil
    ELSE CommandOf([i \in DOMAIN v.value |-> ToCommandArg(v.value[i])])

\* A bulk string on the fast path; here the CRLF behind it is looked at.
FastBulkOf(l, first) ==
    IF l = Nil THEN Nil
    ELSE IF l.number = -1 /\ ~first THEN Parsed("nullbulk", <<>>, l.rest)
    ELSE IF l.number < 0 THEN Nil
    ELSE IF Len(l.rest) < l.number + 2 \/ SubSeq(l.rest, l.number + 1, l.number + 2) # CRLF THEN Nil
    ELSE Parsed("bulk", SubSeq(l.rest, 1, l.number), From(l.rest, l.number + 3))

ArgumentOf(v, first) ==
    IF v = Nil THEN Nil
    ELSE IF (first /\ v.value.type # "bulk") \/ ToCommandArg(v.value) = Nil THEN Nil
    ELSE [v EXCEPT !.value = ToCommandArg(@)]

FastElement(s, first) ==
    IF s # <<>> /\ Head(s) = "$" THEN FastBulkOf(ParseIntLineFast(Tail(s), TRUE), first)
    ELSE ArgumentOf(Parse(s), first)

RECURSIVE FastElements(_, _, _, _)
FastElements(s, count, elements, e) ==
    IF Len(elements) = count THEN [command |-> CommandOf(elements), rest |-> s]
    ELSE IF e = Nil THEN Nil
    ELSE FastElements(e.rest, count, Append(elements, e.value), FastElement(e.rest, FALSE))

FastArray(l) ==
    IF l = Nil THEN Nil
    ELSE IF l.number = 0 THEN Nil
    ELSE FastElements(l.rest, l.number, <<>>, FastElement(l.rest, TRUE))

ParseCommandFromArray(s) ==
    IF s # <<>> /\ Head(s) = "*" THEN FastArray(ParseIntLineFast(Tail(s), FALSE)) ELSE Nil

-----------------------------------------------------------------------------
(* Connection                                                              *)

\* sent: the requests; arrived: how many of their bytes have been read.
RespInit ==
    \E requests \in Pipelines :
        conn = [sent |-> requests, bytes |-> FlattenSeq([i \in DOMAIN requests |-> Build(requests[i])]),
                arrived |-> 0, receive_buffer |-> <<>>, receive_buffer_offset |-> 0,
                cmd_queue |-> <<>>, errors |-> 0]

\* Mutant: the consumed bytes are erased and still counted.
CompactKeepingOffset(c) ==
    IF c.receive_buffer_offset = Len(c.receive_buffer)
    THEN [c EXCEPT !.receive_buffer = <<>>, !.receive_buffer_offset = 0]
    ELSE IF c.receive_buffer_offset >= CompactThreshold /\ c.receive_buffer_offset * 2 >= Len(c.receive_buffer)
    THEN [c EXCEPT !.receive_buffer = From(@, c.receive_buffer_offset + 1)]
    ELSE c

\* The consumed bytes go when there are no others, or when they are many.
Compact(c) ==
    IF c.receive_buffer_offset = Len(c.receive_buffer)
    THEN [c EXCEPT !.receive_buffer = <<>>, !.receive_buffer_offset = 0]
    ELSE IF c.receive_buffer_offset >= CompactThreshold /\ c.receive_buffer_offset * 2 >= Len(c.receive_buffer)
    THEN [c EXCEPT !.receive_buffer = From(@, c.receive_buffer_offset + 1), !.receive_buffer_offset = 0]
    ELSE c

SlowPath(v) == IF v = Nil THEN Nil ELSE [command |-> ParseCommand(v.value), rest |-> v.rest]

OrElse(fast, slow) == IF fast # Nil THEN fast ELSE slow

ReadOne(s) == OrElse(ParseCommandFromArray(s), SlowPath(Parse(s)))

\* A value that is no command is answered with an error.
Take(c, r, remaining) ==
    LET d == [c EXCEPT !.receive_buffer_offset = @ + Len(remaining) - Len(r.rest)]
    IN IF r.command = Nil THEN [d EXCEPT !.errors = @ + 1]
       ELSE [d EXCEPT !.cmd_queue = Append(@, r.command)]

\* The loop of ProcessCommands.  What does not parse waits for more bytes
\* (HasCompleteValue is Parse once more, so the branch for a complete but
\* invalid value is never taken).
RECURSIVE Consume(_, _, _)
Consume(remaining, c, r) ==
    IF r = Nil THEN c ELSE Consume(r.rest, Take(c, r, remaining), ReadOne(r.rest))

Unread(c) == From(c.receive_buffer, c.receive_buffer_offset + 1)

ProcessCommands(c) == Compact(Consume(Unread(c), c, ReadOne(Unread(c))))

\* One turn of DoRead.
DoRead(n) ==
    /\ n <= Len(conn.bytes) - conn.arrived
    /\ conn' = ProcessCommands([Compact(conn) EXCEPT
                   !.receive_buffer = @ \o SubSeq(conn.bytes, conn.arrived + 1, conn.arrived + n),
                   !.arrived = @ + n])

RespNext == \E n \in 1..Len(conn.bytes) : DoRead(n)

RespSpec == RespInit /\ [][RespNext]_conn

-----------------------------------------------------------------------------
(* Properties                                                              *)

\* The value has a line, other than the payload of a bulk string, that reaches
\* the last byte of the first block: FindCRLF may then pass over its end.
RECURSIVE HasLongLine(_)
HasLongLine(v) ==
    CASE v.type = "array" -> \E i \in DOMAIN v.value : HasLongLine(v.value[i])
      [] v.type = "bulk" -> FALSE
      [] OTHER -> Len(v.value) >= VecSize - 1

\* However the network cuts the bytes into reads, the commands in the queue
\* are those of the requests that have arrived in full, each once and in order,
\* with the arguments they were sent with, and each of the other values has
\* been answered with an error: nothing is decoded from half a request, nothing
\* twice, and nothing is lost when the receive buffer is compacted.  A request
\* with a line of VecSize - 1 bytes or more (a simple string, an error or a
\* number; arguments of clients are bulk strings) may be misread with all that
\* follow it, and then this is said of the requests before it.
RequestsReadOnce ==
    conn # Nil =>
    LET long == {i \in DOMAIN conn.sent : HasLongLine(conn.sent[i])}
        complete == {j \in 0..Len(conn.sent) :
                         /\ \A i \in long : j < i
                         /\ Len(FlattenSeq([i \in 1..j |-> Build(conn.sent[i])])) <= conn.arrived}
        n == CHOOSE j \in complete : \A i \in complete : i <= j
        meant == [i \in 1..n |-> ParseCommand(conn.sent[i])]
        commands == SelectSeq(meant, LAMBDA c : c # Nil)
    IN IF long = {} THEN conn.cmd_queue = commands /\ conn.errors = n - Len(commands)
       ELSE IsPrefix(commands, conn.cmd_queue) /\ conn.errors >= n - Len(commands)

=============================================================================
