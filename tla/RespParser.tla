----------------------------- MODULE RespParser -----------------------------
(***************************************************************************)
(* RespParser in byo_redis/protocol/parser.py and encode_command in        *)
(* encoder.py, as operators on sequences of bytes.                         *)
(*                                                                         *)
(* A byte is a one-character string, CR or LF.  A parsed value is a record *)
(* of its kind, the bytes of a bulk or line and the items of an array.     *)
(* The limits of a parser are a record p: bulk, buffer, array and depth.   *)
(***************************************************************************)
EXTENDS Integers, Sequences, SequencesExt

CR == "\r"
LF == "\n"
CRLF == <<CR, LF>>
DIGITS == <<"0", "1", "2", "3", "4", "5", "6", "7", "8", "9">>

\* What f"{n:d}" writes for a length of one digit.
Decimal(n) == <<DIGITS[n + 1]>>

encode_bulk_string(b) == <<"$">> \o Decimal(Len(b)) \o CRLF \o b \o CRLF

encode_command(argv) ==
  <<"*">> \o Decimal(Len(argv)) \o CRLF
    \o FlattenSeq([i \in 1..Len(argv) |-> encode_bulk_string(argv[i])])

-----------------------------------------------------------------------------
(* One value: parsed up to (excluding) the index end, incomplete, or       *)
(* against the rules.                                                      *)

Value(kind, bytes, items) == [kind |-> kind, bytes |-> bytes, items |-> items]
Null == Value("null", <<>>, <<>>)

Parsed(value, end) == [status |-> "ok", value |-> value, end |-> end]
Incomplete == [status |-> "incomplete", value |-> Null, end |-> 0]
ProtocolError == [status |-> "error", value |-> Null, end |-> 0]

\* _read_line: the bytes before the first CRLF from start on; end is 0 when there
\* is none.
read_line(buf, start) ==
  LET IsEnd(i) == buf[i] = CR /\ buf[i + 1] = LF
      end == CHOOSE i \in start..Len(buf) - 1 :
               IsEnd(i) /\ \A j \in start..i - 1 : ~IsEnd(j)
  IN  IF \E i \in start..Len(buf) - 1 : IsEnd(i)
      THEN [text |-> SubSeq(buf, start, end - 1), end |-> end + 2]
      ELSE [text |-> <<>>, end |-> 0]

\* int(line): an optional sign and digits.  (Python also takes spaces and
\* underscores, which no encoder writes.)
IsInt(line) ==
  LET digits == IF line # <<>> /\ line[1] = "-" THEN Tail(line) ELSE line
  IN  digits # <<>> /\ ToSet(digits) \subseteq ToSet(DIGITS)

IntOf(line) ==
  LET place(d) == CHOOSE n \in 0..9 : DIGITS[n + 1] = d
      number(digits) == FoldLeft(LAMBDA n, d : 10 * n + place(d), 0, digits)
  IN  IF line[1] = "-" THEN -number(Tail(line)) ELSE number(line)

\* Bug: a bulk counts as complete before its trailer has arrived.
parse_bulk_NoTrailer(p, buf, start) ==
  LET line == read_line(buf, start + 1)
      length == IntOf(line.text)
  IN  IF line.end = 0 THEN Incomplete
      ELSE IF ~IsInt(line.text) THEN ProtocolError
      ELSE IF length = -1 THEN Parsed(Null, line.end)
      ELSE IF length < -1 \/ length > p.bulk THEN ProtocolError
      ELSE IF Len(buf) < line.end + length - 1 THEN Incomplete
      ELSE Parsed(Value("bulk", SubSeq(buf, line.end, line.end + length - 1), <<>>),
                  line.end + length + 2)

parse_bulk(p, buf, start) ==
  LET line == read_line(buf, start + 1)
      length == IntOf(line.text)
      trailer == line.end + length
  IN  IF line.end = 0 THEN Incomplete
      ELSE IF ~IsInt(line.text) THEN ProtocolError
      ELSE IF length = -1 THEN Parsed(Null, line.end)
      ELSE IF length < -1 \/ length > p.bulk THEN ProtocolError
      ELSE IF Len(buf) < trailer + 1 THEN Incomplete
      ELSE IF SubSeq(buf, trailer, trailer + 1) # CRLF THEN ProtocolError
      ELSE Parsed(Value("bulk", SubSeq(buf, line.end, trailer - 1), <<>>), trailer + 2)

\* "+", "-" and ":" lines.
parse_line(buf, start) ==
  LET line == read_line(buf, start + 1)
  IN  IF line.end = 0 THEN Incomplete
      ELSE IF buf[start] = ":" /\ ~IsInt(line.text) THEN ProtocolError
      ELSE Parsed(Value(CASE buf[start] = "+" -> "simple" [] buf[start] = "-" -> "error"
                          [] buf[start] = ":" -> "int", line.text, <<>>), line.end)

RECURSIVE try_parse(_, _, _, _)
RECURSIVE parse_items(_, _, _, _, _)

\* The loop of _parse_array, after the item that was parsed last ...
parse_rest(p, buf, item, depth, read) ==
  IF item.status # "ok" THEN item
  ELSE parse_items(p, buf, item.end, depth,
                   [missing |-> read.missing - 1,
                    items |-> Append(read.items, item.value)])

\* ... and from cursor on.
parse_items(p, buf, cursor, depth, read) ==
  IF read.missing = 0 THEN Parsed(Value("array", <<>>, read.items), cursor)
  ELSE parse_rest(p, buf, try_parse(p, buf, cursor, depth), depth, read)

parse_array(p, buf, start, depth) ==
  LET line == read_line(buf, start + 1)
      count == IntOf(line.text)
  IN  IF depth >= p.depth THEN ProtocolError
      ELSE IF line.end = 0 THEN Incomplete
      ELSE IF ~IsInt(line.text) THEN ProtocolError
      ELSE IF count = -1 THEN Parsed(Null, line.end)
      ELSE IF count < -1 \/ count > p.array THEN ProtocolError
      ELSE parse_items(p, buf, line.end, depth + 1, [missing |-> count, items |-> <<>>])

try_parse(p, buf, start, depth) ==
  IF start > Len(buf) THEN Incomplete
  ELSE CASE buf[start] \in {"+", "-", ":"} -> parse_line(buf, start)
         [] buf[start] = "$" -> parse_bulk(p, buf, start)
         [] buf[start] = "*" -> parse_array(p, buf, start, depth)
         [] OTHER -> ProtocolError

-----------------------------------------------------------------------------
(* feed: what a parser that holds buf returns for more data, and what it   *)
(* holds then.  After an error the messages before it are lost.            *)

RECURSIVE parse_all(_, _, _, _)

\* The loop of feed, when next is the value at the start of buf.
parse_all(p, buf, next, messages) ==
  CASE next.status = "ok" ->
         LET rest == SubSeq(buf, next.end, Len(buf))
         IN  parse_all(p, rest, try_parse(p, rest, 1, 0), Append(messages, next.value))
    [] next.status = "incomplete" ->
         [failed |-> FALSE, messages |-> messages, buf |-> buf]
    [] next.status = "error" ->
         [failed |-> TRUE, messages |-> <<>>, buf |-> buf]

feed(p, buf, data) ==
  IF Len(buf) + Len(data) > p.buffer
  THEN [failed |-> TRUE, messages |-> <<>>, buf |-> buf]
  ELSE parse_all(p, buf \o data, try_parse(p, buf \o data, 1, 0), <<>>)

=============================================================================
