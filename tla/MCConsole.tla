----------------------------- MODULE MCConsole ------------------------------
(***************************************************************************)
(* TLC instances of the console and of the library under it: the keyboard, *)
(* the serial line, the screen with the shell, the kernel's lists and      *)
(* heap, the strings and the log.  The parts share no state; a behaviour   *)
(* runs one of Parts, the others stay as they started.                     *)
(***************************************************************************)
EXTENDS Keyboard, Uart, Shell, LinkedList, Heap, Klog

CONSTANTS Parts,              \* the parts that are run
          h1, h2, n1, n2, n3  \* list heads and nodes

VARIABLE part

\* A ring of two characters, both shift keys, Caps Lock, and a letter.
MCKeyCodes == {SCANCODE_LSHIFT, SCANCODE_RSHIFT, SCANCODE_CAPSLOCK, 16}

\* Output and input together, and each alone.
MCLoads ==
    {[print |-> 3, receive |-> 3, errors |-> 1], [print |-> 4, receive |-> 0, errors |-> 0],
     [print |-> 0, receive |-> 2, errors |-> 0]}

MCExtra == {[name |-> <<"g">>, does |-> "goto"], [name |-> <<"g", "g">>, does |-> "color"]}
MCPlaces == {<<1, 1>>, <<9, 0>>}

\* Texts of up to four characters; numbers in several bases with text around
\* them; all overlaps of a memory of five cells.
Numbers(fns, values, b, as, before, after) ==
    [fn : fns, value : values, base : {b}, as : as, before : {before}, after : after]

MCRequests ==
    [fn : {"strtok"}, text : UNION {[1 .. n -> {"a", "b", ",", ";"}] : n \in 0 .. 4},
     delims : {{",", ";"}, {","}, {}}]
    \cup UNION {Numbers({"strtol"}, -32 .. 31, b, {b}, <<" ", "TAB">>,
                       {<< >>, <<" ", "1">>, <<"-">>}) : b \in {2, 8, 10, 36}}
    \cup Numbers({"strtol", "strtoul"}, 0 .. 31, 8, {8}, <<"+">>, {<<"8">>})
    \cup Numbers({"strtol", "strtoul"}, 1 .. 31, 16, {0, 16}, <<"0", "x">>, {<<"g">>})
    \cup Numbers({"strtoul"}, 0 .. 31, 8, {0}, <<" ", "+", "0">>, {<<"9">>})
    \cup Numbers({"strtoul"}, 1 .. 63, 10, {0, 10}, <<" ", "+">>, {<<"g">>})
    \cup {r \in [fn : {"memmove"}, cells : {<<1, 2, 3, 4, 5>>}, to : 1 .. 5, from : 1 .. 5,
                 n : 0 .. 4] : r.to + r.n <= 6 /\ r.from + r.n <= 6}

\* Conversions with all flags, short buffers, and symbol tables with gaps.
Item(conv, width, left, zero, arg) ==
    [conv |-> conv, width |-> width, left |-> left, zero |-> zero, arg |-> arg]
Items ==
    {Item("lit", 0, FALSE, FALSE, "a"), Item("other", 0, FALSE, FALSE, "q"),
     Item("p", 0, FALSE, FALSE, 31)}
    \cup {Item("c", w, l, FALSE, "c") : w \in {0, 2}, l \in BOOLEAN}
    \cup {Item("s", w, l, FALSE, t) : w \in {0, 3}, l \in BOOLEAN, t \in {<< >>, <<"s", "t">>}}
    \cup ({Item(v, w, l, z, n) : v \in {"d", "u", "x"}, w \in {0, 4},
             l \in BOOLEAN, z \in BOOLEAN, n \in {-32, 10}}
        \ {Item(v, w, TRUE, TRUE, n) : v \in {"d", "u", "x"}, w \in {0, 4}, n \in {-32, 10}})
Lit == Item("lit", 0, FALSE, FALSE, "a")
Formats ==
    {<<Lit, i, j>> : i \in {k \in Items : k.conv \in {"c", "p", "s"}}, j \in Items}
    \cup {<<i, Item("end", 0, FALSE, FALSE, "%")>> : i \in Items}
Symbol(a, n) == [address |-> a, name |-> n]
Tables ==
    {<<NoSymbol>>} \cup
    {[i \in 1 .. Len(s) |-> Symbol(s[i], IF i \in bare THEN << >> ELSE <<"f", "n">>)]
         \o <<NoSymbol>> :
        s \in {<<2>>, <<2, 5>>, <<2, 3, 9>>, <<1, 4, 6, 9>>, <<2, 3, 5, 8, 9>>},
        bare \in {{}, {1}, {3}}}
MCJobs ==
    [kind : {"format"}, size : 1 .. 8, format : Formats]
    \cup [kind : {"log"}, size : {8, 10}, level : {0, 1}, format : {<<i, Lit>> : i \in Items}]
    \cup [kind : {"address"}, size : {8, 16}, table : Tables,
          text : {[start |-> 1, end |-> 10]}, addr : 0 .. 11]

-----------------------------------------------------------------------------
vars == <<part, keyboardVars, uartVars, shellVars, listVars, heapVars, stringVars, klogVars>>

\* The library's parts have inputs only where they run.
Init ==
    /\ part \in Parts
    /\ KeyboardInit /\ UartInit /\ ShellInit /\ ListInit /\ HeapInit
    /\ part # "uart" => load = CHOOSE l \in Loads : TRUE
    /\ IF part = "strings" THEN StringsInit
       ELSE request = [fn |-> "none"] /\ mem = << >> /\ save = 0 /\ results = << >>
    /\ IF part = "klog" THEN KlogInit ELSE job = [kind |-> "none"] /\ output = NoOutput

Next ==
    /\ UNCHANGED part
    /\ \/ /\ part = "keyboard" /\ KeyboardNext
          /\ UNCHANGED <<uartVars, shellVars, listVars, heapVars, stringVars, klogVars>>
       \/ /\ part = "uart" /\ UartNext
          /\ UNCHANGED <<keyboardVars, shellVars, listVars, heapVars, stringVars, klogVars>>
       \/ /\ part = "shell" /\ ShellNext
          /\ UNCHANGED <<keyboardVars, uartVars, listVars, heapVars, stringVars, klogVars>>
       \/ /\ part = "list" /\ ListNext
          /\ UNCHANGED <<keyboardVars, uartVars, shellVars, heapVars, stringVars, klogVars>>
       \/ /\ part = "heap" /\ HeapNext
          /\ UNCHANGED <<keyboardVars, uartVars, shellVars, listVars, stringVars, klogVars>>
       \/ /\ part = "strings" /\ StringsNext
          /\ UNCHANGED <<keyboardVars, uartVars, shellVars, listVars, heapVars, klogVars>>
       \/ /\ part = "klog" /\ KlogNext
          /\ UNCHANGED <<keyboardVars, uartVars, shellVars, listVars, heapVars, stringVars>>

Spec == Init /\ [][Next]_vars /\ KeyboardFairness /\ UartFairness

(* Input and output make progress: a reader that waits gets its character, *)
(* from the keyboard (KeyReturns) and from the line (ReceiverReturns), and *)
(* async_serial_putc returns and its output drains (PutcReturns,           *)
(* OutputDrains).                                                          *)
ConsoleProgress == KeyReturns /\ PutcReturns /\ OutputDrains /\ ReceiverReturns
=============================================================================
