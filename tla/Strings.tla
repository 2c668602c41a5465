------------------------------ MODULE Strings ------------------------------
(***************************************************************************)
(* The kernel's string library: base/string.c, base/memory.c and           *)
(* base/strhelpers.c.  A text is a sequence of characters; a piece of      *)
(* memory is a sequence of cells in which a text ends with "NUL", and a    *)
(* pointer is a cell's number, 0 for NULL.  A request names a call and its *)
(* arguments; strtok is called again until it returns NULL.  Words have    *)
(* WordBits bits and wrap, as the compiled arithmetic does; letters have   *)
(* one case.                                                               *)
(***************************************************************************)
EXTENDS Integers, Sequences, SequencesExt, FiniteSetsExt

CONSTANTS
    WordBits,   \* bits of a long (64)
    Requests    \* the calls that are made

ASSUME StringsAssumption == WordBits \in Nat \ {0}

VARIABLES
    request,   \* the call
    mem,       \* the memory it works on
    save,      \* strtok's saved pointer
    results    \* what the calls returned, in order

stringVars == <<request, mem, save, results>>

-----------------------------------------------------------------------------
(* Searching *)

\* The length of the longest prefix whose characters are in a set.
strspn(text, accept) ==
    Max({n \in 0 .. Len(text) : \A i \in 1 .. n : text[i] \in accept})

strcspn(text, reject) ==
    Max({n \in 0 .. Len(text) : \A i \in 1 .. n : text[i] \notin reject})

\* The text at a pointer, and a text with its end.
TextFrom(cells, p) == SubSeq(cells, p, p + strcspn(SubSeq(cells, p, Len(cells)), {"NUL"}) - 1)
Terminated(text) == Append(text, "NUL")

-----------------------------------------------------------------------------
(* strtok and strtok_r: the token's end is overwritten and the next search *)
(* starts behind it.                                                       *)

\* Slip: the next search starts at the end that was written.
NextSearch_at_end(s) == s

NextSearch(s) == s + 1

TokenAt(delims, token, end) ==
    IF end <= Len(mem) /\ mem[end] # "NUL"
    THEN /\ mem' = [mem EXCEPT ![end] = "NUL"]
         /\ save' = NextSearch(end)
         /\ results' = Append(results, token)
    ELSE /\ save' = 0
         /\ results' = Append(results, token)
         /\ UNCHANGED mem

strtok(str, delims) ==
    \E s \in {IF str # 0 THEN str ELSE save} :
        IF s = 0 THEN results' = Append(results, 0) /\ UNCHANGED <<mem, save>>
        ELSE \E token \in {s + strspn(TextFrom(mem, s), delims)} :
                IF mem[token] = "NUL"
                THEN save' = 0 /\ results' = Append(results, 0) /\ UNCHANGED mem
                ELSE TokenAt(delims, token, token + strcspn(TextFrom(mem, token), delims))

-----------------------------------------------------------------------------
(* Numbers *)

DigitChars == <<"0", "1", "2", "3", "4", "5", "6", "7", "8", "9", "a", "b", "c",
                "d", "e", "f", "g", "h", "i", "j", "k", "l", "m", "n", "o", "p",
                "q", "r", "s", "t", "u", "v", "w", "x", "y", "z">>
Spaces == {" ", "TAB", "LF", "VT", "FF", "CR"}

Unsigned(n) == n % 2^WordBits
Signed(n) == Unsigned(n + 2^(WordBits - 1)) - 2^(WordBits - 1)

\* The digits of a word, the lowest first.
LowFirst(word, base) ==
    LET f[n \in 0 .. word] ==
            <<DigitChars[(n % base) + 1]>> \o (IF n < base THEN << >> ELSE f[n \div base])
    IN  f[word]

uitoa64(value, base) ==
    IF base \notin 2 .. 36 THEN << >> ELSE Reverse(LowFirst(value, base))

\* The sign is written in base 10 only.
itoa_signed(value, base) ==
    IF value < 0 /\ base = 10
    THEN Reverse(LowFirst(Unsigned(-value), base) \o <<"-">>)
    ELSE uitoa64(Unsigned(value), base)

DigitValue(c) == SelectInSeq(DigitChars, LAMBDA d : d = c) - 1

IsDigit(c, base) == DigitValue(c) \in 0 .. base - 1

\* The base of a number that starts with these characters, and how many of
\* them announce it: base 0 lets the text choose.
Announced(rest, base) ==
    LET zero == Len(rest) >= 1 /\ rest[1] = "0"
        hex == zero /\ Len(rest) >= 2 /\ rest[2] = "x"
    IN  CASE base \in {0, 16} /\ hex       -> [base |-> 16, skip |-> 2]
          [] base = 0 /\ zero /\ ~hex      -> [base |-> 8, skip |-> 1]
          [] base = 0 /\ ~zero             -> [base |-> 10, skip |-> 0]
          [] OTHER                         -> [base |-> base, skip |-> 0]

\* The digits after the first characters: their value, and the number of
\* characters before endptr, none when there is no digit.
Digits(text, first, base, negative) ==
    LET rest == SubSeq(text, first + 1, Len(text))
        n == Max({k \in 0 .. Len(rest) : \A i \in 1 .. k : IsDigit(rest[i], base)})
        word == FoldLeft(LAMBDA r, c : Unsigned(r * base + DigitValue(c)), 0,
                         SubSeq(rest, 1, n))
    IN  [value |-> IF negative THEN Unsigned(-word) ELSE word,
         end |-> IF n > 0 THEN first + n ELSE 0]

\* White space, one of the signs, the base and the digits.
Number(text, signs, base) ==
    LET blanks == strspn(text, Spaces)
        sign == IF blanks < Len(text) /\ text[blanks + 1] \in signs
                THEN text[blanks + 1] ELSE ""
        first == blanks + (IF sign = "" THEN 0 ELSE 1)
        b == Announced(SubSeq(text, first + 1, Len(text)), base)
    IN  Digits(text, first + b.skip, b.base, sign = "-")

strtoul(text, base) == Number(text, {"+"}, base)

strtol(text, base) ==
    LET n == Number(text, {"-", "+"}, base) IN [n EXCEPT !.value = Signed(@)]

-----------------------------------------------------------------------------
(* Memory *)

\* Cells copied one after the other, in the order of the offsets.
CopyCells(cells, d, s, offsets) ==
    FoldLeft(LAMBDA m, k : [m EXCEPT ![d + k] = m[s + k]], cells, offsets)

Upwards(n) == [i \in 1 .. n |-> i - 1]

memcpy(cells, d, s, n) == CopyCells(cells, d, s, Upwards(n))

memmove(cells, d, s, n) ==
    IF d = s \/ n = 0 THEN cells
    ELSE IF d > s /\ d < s + n THEN CopyCells(cells, d, s, Reverse(Upwards(n)))
    ELSE memcpy(cells, d, s, n)

-----------------------------------------------------------------------------
(* The calls.  A numeric request prints a value and reads it back between  *)
(* other text.                                                             *)

MemoryOf(r) ==
    CASE r.fn = "strtok"  -> Terminated(r.text)
      [] r.fn = "memmove" -> r.cells
      [] r.fn \in {"strtol", "strtoul"} ->
            Terminated(r.before \o (IF r.fn = "strtol" THEN itoa_signed(r.value, r.base)
                                ELSE uitoa64(r.value, r.base)) \o r.after)

StringsInit ==
    /\ request \in Requests
    /\ mem = MemoryOf(request)
    /\ save = 0 /\ results = << >>

Tokenize ==
    /\ request.fn = "strtok"
    /\ results # << >> => Last(results) # 0
    /\ strtok(IF results = << >> THEN 1 ELSE 0, request.delims)

ReadNumber ==
    /\ request.fn \in {"strtol", "strtoul"} /\ results = << >>
    /\ results' = <<IF request.fn = "strtol" THEN strtol(TextFrom(mem, 1), request.as)
                    ELSE strtoul(TextFrom(mem, 1), request.as)>>
    /\ UNCHANGED <<mem, save>>

MoveCells ==
    /\ request.fn = "memmove" /\ results = << >>
    /\ mem' = memmove(mem, request.to, request.from, request.n)
    /\ results' = <<request.to>>
    /\ UNCHANGED save

StringsNext == (Tokenize \/ ReadNumber \/ MoveCells) /\ UNCHANGED request

-----------------------------------------------------------------------------

(* strtok returns the fields of a text between delimiters, each whole, once *)
(* and in order, although every call overwrites a delimiter and the next    *)
(* one continues from the saved pointer (string.c:208).                     *)
TokensAreFields ==
    request.fn = "strtok" /\ results # << >> /\ Last(results) = 0 =>
        LET text == request.text
            starts == {i \in 1 .. Len(text) :
                          /\ text[i] \notin request.delims
                          /\ i = 1 \/ text[i - 1] \in request.delims}
        IN  /\ Front(results) = SetToSortSeq(starts, <)
            /\ \A i \in starts :
                  TextFrom(mem, i) =
                      SubSeq(text, i, i + strcspn(SubSeq(text, i, Len(text)), request.delims) - 1)

(* A number printed in any base is read back as the same word, white space  *)
(* before it and other text after it notwithstanding, and endptr is left    *)
(* right behind its digits, the most negative number included               *)
(* (strhelpers.c:15, 76, 211, 244).                                         *)
NumbersRoundTrip ==
    request.fn \in {"strtol", "strtoul"} /\ results # << >> =>
        /\ Unsigned(results[1].value) = Unsigned(request.value)
        /\ results[1].end = Len(mem) - 1 - Len(request.after)

(* memmove moves the cells as they were, however the two places overlap,    *)
(* and leaves the others alone (memory.c:29).                               *)
MovesWhole ==
    request.fn = "memmove" /\ results # << >> =>
        \A i \in 1 .. Len(mem) :
            mem[i] = IF i \in request.to .. (request.to + request.n - 1)
                     THEN request.cells[i - request.to + request.from]
                     ELSE request.cells[i]

(* The library computes what its callers rely on at the edges: fields,     *)
(* numbers and overlapping moves.                                          *)
LibraryExact == TokensAreFields /\ NumbersRoundTrip /\ MovesWhole
=============================================================================
