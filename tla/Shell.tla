------------------------------- MODULE Shell -------------------------------
(***************************************************************************)
(* The command shell on the text screen (kernel/shell/shell.c,             *)
(* shell/backends/vga_shell.c): line editing with echo, splitting a line   *)
(* into words, the table of commands and what the commands do to screen    *)
(* and shell.  A command's messages are the word Message.  Keys are any    *)
(* characters the keyboard delivers.                                       *)
(*                                                                         *)
(* The text screen (kernel/driver/vga/vga.c): its cells, the cursor, and   *)
(* the software cursor, a block drawn over a cell whose character is kept  *)
(* aside.  The driver's state is a record, and its operations are          *)
(* functions of it:                                                        *)
(*   screen  the cells, by position: [c: character, bg: background]        *)
(*   x, y    native_cursor_pos                                             *)
(*   bg      background_color (the font's color is left out)               *)
(*   hw      the position written to the hardware cursor                   *)
(*   soft    [on, x, y, saved]: soft_cursor_state; saved is NoCell while   *)
(*           has_saved_char is clear                                       *)
(* Control characters are named "LF", "CR", "TAB" and "BS".                *)
(***************************************************************************)
EXTENDS Integers, Sequences, SequencesExt

CONSTANTS
    Width, Height,   \* of the screen (80, 25)
    TabStop,         \* columns between tab stops (8)
    Printable        \* the printable characters that are used

ASSUME VgaAssumption ==
    /\ Width \in Nat \ {0} /\ Height \in Nat \ {0} /\ TabStop \in Nat \ {0}
    /\ " " \in Printable

CONSTANTS
    BufferSize,    \* SHELL_CMD_BUFFER_SIZE (128)
    MaxCommands,   \* SHELL_MAX_COMMANDS (32)
    MaxArgs,       \* SHELL_MAX_ARGS (16)
    Keys,          \* keys that are pressed
    Extra,         \* commands registered or removed: [name, does]
    Places,        \* arguments of the goto command: <<x, y>>
    MaxKeys        \* bound: keys pressed

ASSUME ShellAssumption ==
    {BufferSize, MaxCommands, MaxArgs, MaxKeys} \subseteq Nat \ {0}

-----------------------------------------------------------------------------
(* The text screen *)

Cell(c, bg) == [c |-> c, bg |-> bg]
Block == Cell("block", "black")
NoCell == Cell("none", "none")

Positions == 0 .. (Width * Height - 1)
Position(x, y) == y * Width + x

\* The screen as the firmware leaves it; the boot code has no software cursor.
system_vga_init ==
    [screen |-> [p \in Positions |-> Cell(" ", "black")],
     x |-> 0, y |-> 0, bg |-> "black", hw |-> 0,
     soft |-> [on |-> FALSE, x |-> 0, y |-> 0, saved |-> NoCell]]

-----------------------------------------------------------------------------
(* The two cursors *)

\* The hardware cursor is left alone while the software cursor is on.
vga_update_hardware_cursor_position(v) ==
    IF v.soft.on THEN v ELSE [v EXCEPT !.hw = Position(v.x, v.y)]

SoftPosition(v) == Position(v.soft.x, v.soft.y)

vga_soft_cursor_hide(v) ==
    IF ~v.soft.on \/ v.soft.saved = NoCell THEN v
    ELSE [v EXCEPT !.screen[SoftPosition(v)] = v.soft.saved,
                   !.soft.saved = NoCell]

vga_soft_cursor_draw(v) ==
    IF ~v.soft.on THEN v
    ELSE [v EXCEPT !.soft.saved = IF @ = NoCell THEN v.screen[SoftPosition(v)] ELSE @,
                   !.screen[SoftPosition(v)] = Block]

vga_soft_cursor_init(v) ==
    vga_soft_cursor_draw([v EXCEPT !.soft = [on |-> TRUE, x |-> 0, y |-> 0,
                                             saved |-> NoCell]])

Clamped(n, limit) == IF n >= limit THEN limit - 1 ELSE n

\* Nothing is drawn when the position stays the same.
vga_soft_cursor_update(v, x, y) ==
    LET cx == Clamped(x, Width)
        cy == Clamped(y, Height)
    IN  IF ~v.soft.on \/ (cx = v.soft.x /\ cy = v.soft.y) THEN v
        ELSE vga_soft_cursor_draw([vga_soft_cursor_hide(v) EXCEPT
                                       !.soft.x = cx, !.soft.y = cy])

\* The software cursor follows with the next character.
vga_set_cursor(v, x, y) ==
    vga_update_hardware_cursor_position(
        [v EXCEPT !.x = Clamped(x, Width), !.y = Clamped(y, Height)])

-----------------------------------------------------------------------------
(* Text *)

\* Blanks every cell; the cell that the software cursor keeps stays kept.
vga_clear(v, bg) ==
    vga_update_hardware_cursor_position(
        [v EXCEPT !.screen = [p \in Positions |-> Cell(" ", bg)],
                  !.x = 0, !.y = 0, !.bg = bg])

\* Content moves up when lines > 0, down when lines < 0.  The lines moved are
\* fewer than the screen has: otherwise the loop that blanks every cell does
\* not end, its 8-bit counter never reaching width * height.
vga_scroll(v, lines) ==
    [v EXCEPT !.screen = [p \in Positions |->
        IF p + lines * Width \in Positions THEN v.screen[p + lines * Width]
        ELSE Cell(" ", v.bg)]]

NextLine(v) ==
    IF v.y + 1 >= Height THEN [vga_scroll(v, 1) EXCEPT !.x = 0, !.y = Height - 1]
    ELSE [v EXCEPT !.x = 0, !.y = @ + 1]

NextTab(v) ==
    LET tab == (v.x \div TabStop + 1) * TabStop
    IN  IF tab >= Width THEN NextLine(v) ELSE [v EXCEPT !.x = tab]

\* Slip: stops at the start of the line.
Back_in_line(v) == IF v.x > 0 THEN [v EXCEPT !.x = @ - 1] ELSE v

Back(v) ==
    CASE v.x > 0             -> [v EXCEPT !.x = @ - 1]
      [] v.x = 0 /\ v.y > 0  -> [v EXCEPT !.x = Width - 1, !.y = @ - 1]
      [] OTHER               -> v

Stored(v, c) ==
    LET w == [v EXCEPT !.screen[Position(v.x, v.y)] = Cell(c, v.bg)]
    IN  IF v.x + 1 >= Width THEN NextLine(w) ELSE [w EXCEPT !.x = @ + 1]

Moved(v, c) ==
    CASE c \in {"LF", "CR"} -> NextLine(v)
      [] c = "TAB"           -> NextTab(v)
      [] c = "BS"           -> Back(v)
      [] c \in Printable    -> Stored(v, c)
      [] OTHER              -> v

\* The software cursor is taken away while the character is handled.
vga_putc(v, c) ==
    LET w == Moved(vga_soft_cursor_hide(v), c)
    IN  IF w.soft.on THEN vga_soft_cursor_update(w, w.x, w.y)
        ELSE vga_update_hardware_cursor_position(w)

vga_print_string(v, string) == FoldLeft(vga_putc, v, string)

-----------------------------------------------------------------------------
\* What is written at a position, under the software cursor if need be.
TextAt(v, p) ==
    IF v.soft.saved # NoCell /\ p = SoftPosition(v) THEN v.soft.saved
    ELSE v.screen[p]

-----------------------------------------------------------------------------
(* The shell *)

VARIABLES
    vga,         \* the screen
    commands,    \* g_commands, a sequence of [name, does]
    line,        \* the characters of cmd_buffer before cmd_pos
    shell,       \* "off", "running" or "exited"
    keys         \* keys pressed so far

shellVars == <<vga, commands, line, shell, keys>>

Prompt == <<"$", " ">>
Message == <<"$", "LF">>

ShellInit ==
    /\ vga = system_vga_init
    /\ commands = << >> /\ line = << >>
    /\ shell = "off" /\ keys = 0

-----------------------------------------------------------------------------
(* The table of commands *)

find_command(table, name) == SelectInSeq(table, LAMBDA c : c.name = name)

shell_register_command(table, c) ==
    IF find_command(table, c.name) # 0 \/ Len(table) >= MaxCommands THEN table
    ELSE Append(table, c)

shell_unregister_command(table, name) ==
    LET i == find_command(table, name)
    IN  IF i = 0 THEN table ELSE RemoveAt(table, i)

register_builtin_commands(table) ==
    FoldLeft(shell_register_command, table,
             <<[name |-> <<"h">>, does |-> "help"],
               [name |-> <<"c">>, does |-> "clear"],
               [name |-> <<"e">>, does |-> "exit"]>>)

-----------------------------------------------------------------------------
(* Commands.  Each is a function of the screen; "exit" ends the shell. *)

cmd_help(v) ==
    vga_print_string(v, FlattenSeq([i \in 1 .. Len(commands) |->
                                        commands[i].name \o <<"LF">>]))

cmd_goto(v, at) == vga_set_cursor(v, at[1], at[2])

cmd_color(v) == vga_print_string([v EXCEPT !.bg = "blue"], Message)

\* The possible screens after a command's handler.
Run(v, does) ==
    CASE does = "help"  -> {cmd_help(v)}
      [] does = "clear" -> {vga_clear(v, "black")}
      [] does = "goto"  -> {cmd_goto(v, at) : at \in Places}
      [] does = "color" -> {cmd_color(v)}
      [] does = "exit"  -> {v}
      [] OTHER          -> {vga_print_string(v, Message)}

\* The words of a line, at most MaxArgs.
parse_command(text) ==
    LET step(acc, c) ==
            IF c \in {" ", "TAB"} THEN [acc EXCEPT !.open = FALSE]
            ELSE IF acc.open
            THEN [acc EXCEPT !.words[Len(acc.words)] = Append(@, c)]
            ELSE [words |-> Append(acc.words, <<c>>), open |-> TRUE]
        all == FoldLeft(step, [words |-> << >>, open |-> FALSE], text).words
    IN  IF Len(all) > MaxArgs THEN SubSeq(all, 1, MaxArgs) ELSE all

\* The shell's end, which shell_run announces.
Exited(v) == [vga |-> vga_print_string(v, <<"LF">> \o Message), shell |-> "exited"]
Goes(v) == [vga |-> v, shell |-> "running"]

\* A line after its end was echoed.  An empty line brings no prompt.
execute_command(v, text) ==
    LET words == parse_command(text)
        at == IF words = << >> THEN 0 ELSE find_command(commands, Head(words))
        prompted(w) == Goes(vga_print_string(w, Prompt))
    IN  CASE text = << >>                       -> {Goes(v)}
          [] text # << >> /\ words = << >>      -> {prompted(v)}
          [] words # << >> /\ at = 0            ->
                {prompted(vga_print_string(v, Message \o Head(words) \o <<"LF">>))}
          [] OTHER -> IF commands[at].does = "exit" THEN {Exited(v)}
                      ELSE {prompted(w) : w \in Run(v, commands[at].does)}

-----------------------------------------------------------------------------
(* The shell *)

\* vga_shell_run: the software cursor, the welcome and the first prompt.
\* Other code may have printed and moved the cursor before.
shell_run(before) ==
    /\ shell = "off"
    /\ shell' = "running"
    /\ commands' = register_builtin_commands(commands)
    /\ vga' = vga_print_string(vga_soft_cursor_init(vga_print_string(vga, before)),
                               <<"LF">> \o Message \o Prompt)
    /\ UNCHANGED <<line, keys>>

EndOfLine ==
    /\ \E r \in execute_command(vga_print_string(vga, <<"CR", "LF">>), line) :
          vga' = r.vga /\ shell' = r.shell
    /\ line' = << >>

Backspace ==
    /\ IF line = << >> THEN UNCHANGED <<line, vga>>
       ELSE /\ line' = Front(line)
            /\ vga' = vga_print_string(vga, <<"BS", " ", "BS">>)
    /\ UNCHANGED shell

PrintableKey(c) ==
    /\ IF Len(line) < BufferSize - 1
       THEN line' = Append(line, c) /\ vga' = vga_putc(vga, c)
       ELSE UNCHANGED <<line, vga>>
    /\ UNCHANGED shell

shell_step(c) ==
    /\ shell = "running" /\ keys < MaxKeys
    /\ keys' = keys + 1
    /\ CASE c \in {"CR", "LF"} -> EndOfLine
         [] c = "BS"           -> Backspace
         [] c \in Printable    -> PrintableKey(c)
         [] OTHER              -> UNCHANGED <<line, vga, shell>>
    /\ UNCHANGED commands

\* Drivers add and remove commands.
ChangeCommands(c) ==
    /\ shell = "off"
    /\ \/ commands' = shell_register_command(commands, c)
       \/ commands' = shell_unregister_command(commands, c.name)
    /\ UNCHANGED <<vga, line, shell, keys>>

ShellNext ==
    \/ \E before \in {<< >>, <<"$", "$", "TAB", "$">>} : shell_run(before)
    \/ \E c \in Keys : shell_step(c)
    \/ \E c \in Extra : ChangeCommands(c)

-----------------------------------------------------------------------------

(* The line being typed stands on the screen right before the cursor, through *)
(* wrapping, scrolling, backspacing over a line's start, clearing and moving  *)
(* the cursor: what is executed is what is seen (shell.c:210, vga.c:372).     *)
LineOnScreen ==
    shell = "running" =>
        \A k \in 1 .. Len(line) :
            TextAt(vga, Position(vga.x, vga.y) - k).c = line[Len(line) + 1 - k]
=============================================================================
