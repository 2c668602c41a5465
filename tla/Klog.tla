-------------------------------- MODULE Klog --------------------------------
(***************************************************************************)
(* What the kernel prints: formatting into a bounded buffer                *)
(* (klogs/private/format.c, klogs/kprintf.c) and the names of addresses in *)
(* a stack trace (stacktrace/symbol.c).  A format is a sequence of items:  *)
(* [conv, width, left, zero, arg], where conv is "lit" for a character of  *)
(* its own and "end" for a '%' that ends the format.  The symbol table is  *)
(* a sequence of [address, name], sorted by address as                     *)
(* scripts/extract_symbols.py writes it, that ends with NoSymbol.          *)
(***************************************************************************)
EXTENDS Strings

CONSTANTS
    Jobs,          \* what is printed
    FilterLevel,   \* g_log_level
    NameRoom,      \* characters kept free behind a symbol's name (20)
    SuffixRoom     \* characters kept free for its offset (10)

ASSUME KlogAssumption ==
    FilterLevel \in Nat /\ NameRoom \in Nat /\ SuffixRoom \in Nat

VARIABLES
    job,      \* what is printed: a format or an address, and the buffer's size
    output    \* the characters in the buffer before the "NUL", once printed

klogVars == <<job, output>>
NoOutput == <<"none">>

-----------------------------------------------------------------------------
(* Formatting *)

\* One character without a test, and a text as far as the buffer's limit.
Put(out, c) == Append(out, c)
PutWithin(out, text, limit) ==
    out \o SubSeq(text, 1, Min({Len(text), limit - Len(out)}))

Fill(c, n) == [i \in 1 .. n |-> c]

Text(item) ==
    CASE item.conv = "s"        -> item.arg
      [] item.conv = "d"        -> itoa_signed(item.arg, 10)
      [] item.conv = "u"        -> uitoa64(Unsigned(item.arg), 10)
      [] item.conv \in {"x", "p"} -> uitoa64(Unsigned(item.arg), 16)
      [] OTHER                  -> <<item.arg>>

Padding(item) == IF item.width > Len(Text(item)) THEN item.width - Len(Text(item)) ELSE 0

ConvertChar(out, item, limit) ==
    IF item.width <= 1 THEN Put(out, item.arg)
    ELSE IF item.left
    THEN PutWithin(Put(out, item.arg), Fill(" ", item.width - 1), limit)
    ELSE PutWithin(PutWithin(out, Fill(" ", item.width - 1), limit), <<item.arg>>, limit)

\* %s, %d, %u and %x; %x is never aligned to the left.
ConvertText(out, item, limit) ==
    LET pad == Padding(item)
        fill == Fill(IF item.zero /\ item.conv # "s" THEN "0" ELSE " ", pad)
    IN  IF item.left /\ item.conv # "x"
        THEN PutWithin(PutWithin(out, Text(item), limit), Fill(" ", pad), limit)
        ELSE PutWithin(PutWithin(out, fill, limit), Text(item), limit)

ConvertPointer(out, item, limit) ==
    PutWithin(PutWithin(Put(out, "0"), <<"x">>, limit), Text(item), limit)

Convert(out, item, limit) ==
    CASE item.conv = "c"                   -> ConvertChar(out, item, limit)
      [] item.conv \in {"s", "d", "u", "x"} -> ConvertText(out, item, limit)
      [] item.conv = "p"                   -> ConvertPointer(out, item, limit)
      [] OTHER                             -> Put(out, item.arg)

\* Slip: the loop goes on when only the terminator's place is left.
HasRoom_for_all(out, size) == Len(out) < size

HasRoom(out, size) == Len(out) < size - 1

klog_format_string(size, format) ==
    FoldLeft(LAMBDA out, item : IF HasRoom(out, size) THEN Convert(out, item, size - 1)
                                ELSE out,
             << >>, format)

\* "[LEVEL] " and the message, in a buffer of the given size.
klog_log(size, level, format) ==
    IF level < FilterLevel THEN << >>
    ELSE <<"[", "L", "]", " ">> \o klog_format_string(size - 4 - 2, format)

-----------------------------------------------------------------------------
(* Symbols *)

NoSymbol == [address |-> 0, name |-> << >>]

\* The number of entries before the terminator, none for the placeholder.
init_symbol_table(table) ==
    IF table[1].address = 0 THEN 0 ELSE SelectInSeq(table, LAMBDA e : e = NoSymbol) - 1

Searching(left, right) == left <= right

\* The entry that covers an address, 0 when there is none.  Entries without a
\* name send the search to the left.
find_symbol(table, text, addr) ==
    LET count == init_symbol_table(table)
        search[b \in (1 .. count + 1) \X (0 .. count)] ==
            LET mid == (b[1] + b[2] - 2) \div 2 + 1
                lower == search[<<b[1], mid - 1>>]
            IN  IF ~Searching(b[1], b[2]) THEN 0
                ELSE IF table[mid].name = << >> \/ addr < table[mid].address THEN lower
                ELSE IF mid = count \/ addr < table[mid + 1].address THEN mid
                ELSE search[<<mid + 1, b[2]>>]
    IN  IF count = 0 \/ addr \notin text.start .. (text.end - 1) THEN 0
        ELSE search[<<1, count>>]

\* "name", "name + 0xoffset", or "0xaddress".
format_symbol(size, table, text, addr) ==
    LET at == find_symbol(table, text, addr)
        offset == addr - table[at].address
        named == PutWithin(<< >>, table[at].name, size - NameRoom)
        plus == PutWithin(named, <<" ", "+", " ", "0", "x">>, size - SuffixRoom)
    IN  CASE at = 0                -> PutWithin(<<"0", "x">>, uitoa64(addr, 16), size - 1)
          [] at # 0 /\ offset = 0  -> PutWithin(<< >>, table[at].name, size - 1)
          [] OTHER                 -> PutWithin(plus, uitoa64(offset, 16), size - 1)

-----------------------------------------------------------------------------

KlogInit == job \in Jobs /\ output = NoOutput

PrintFormat ==
    /\ job.kind = "format"
    /\ output' = klog_format_string(job.size, job.format)

PrintLog ==
    /\ job.kind = "log"
    /\ output' = klog_log(job.size, job.level, job.format)

PrintAddress ==
    /\ job.kind = "address"
    /\ output' = format_symbol(job.size, job.table, job.text, job.addr)

KlogNext ==
    /\ output = NoOutput
    /\ PrintFormat \/ PrintLog \/ PrintAddress
    /\ UNCHANGED job

-----------------------------------------------------------------------------

\* An item as it is written without a limit.
Rendered(item) ==
    LET pad == Padding(item)
        spaces == Fill(" ", pad)
    IN  CASE item.conv = "p"                       -> <<"0", "x">> \o Text(item)
          [] item.conv \in {"lit", "end", "other"} -> <<item.arg>>
          [] item.left /\ item.conv \in {"c", "s", "d", "u"} -> Text(item) \o spaces
          [] ~(item.left /\ item.conv \in {"c", "s", "d", "u"})
                /\ item.zero /\ item.conv \in {"d", "u", "x"} -> Fill("0", pad) \o Text(item)
          [] OTHER -> spaces \o Text(item)

(* A formatted message is cut, never changed: the buffer holds the first    *)
(* characters of the whole message, as many as fit with the terminator,     *)
(* although some characters are stored without a test of the limit          *)
(* (format.c:29, 82, 239).  The same holds behind a log line's level.       *)
FormatIsPrefix ==
    output # NoOutput /\ job.kind \in {"format", "log"} =>
        LET whole == FlattenSeq([i \in 1 .. Len(job.format) |-> Rendered(job.format[i])])
            room == job.size - 1 - (IF job.kind = "log" THEN 6 ELSE 0)
            message == SubSeq(whole, 1, Min({room, Len(whole)}))
        IN  output = CASE job.kind = "format"                           -> message
                       [] job.kind = "log" /\ job.level < FilterLevel -> << >>
                       [] OTHER -> <<"[", "L", "]", " ">> \o message

(* An address is named after the nearest symbol at or below it whenever it  *)
(* lies in the kernel's text and the table has names, and what is printed   *)
(* fits the buffer (symbol.c:64, 113).                                      *)
SymbolCovers ==
    output # NoOutput /\ job.kind = "address" =>
        LET count == init_symbol_table(job.table)
            below == {i \in 1 .. count : job.table[i].address <= job.addr}
            at == find_symbol(job.table, job.text, job.addr)
        IN  /\ Len(output) <= job.size - 1
            /\ at # 0 => at = Max(below)
            /\ (/\ job.addr \in job.text.start .. (job.text.end - 1)
                /\ below # {}
                /\ \A i \in 1 .. count : job.table[i].name # << >>) => at # 0

(* Messages and symbol names come out right at the limits of their buffers *)
(* and tables.                                                             *)
MessagesExact == FormatIsPrefix /\ SymbolCovers
=============================================================================
