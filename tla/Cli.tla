--------------------------------- MODULE Cli ---------------------------------
(***************************************************************************)
(* lib/cmdline/core.c: the line editor of the serial console, with the       *)
(* commands of cmd_table that change its state.  A key press of the user is  *)
(* one or two characters, depending on what the terminal sends for Enter.    *)
(* Command names are single letters here; a command line is a name, a space  *)
(* and arguments.                                                            *)
(***************************************************************************)
EXTENDS Naturals, Sequences, SequencesExt

CONSTANTS
    CL_SIZE,      \* sizeof(cl_buf), 64 in the code
    EXIT, SAVE,   \* letters that name the commands exit and save
    UNKNOWN       \* a letter that names no command

VARIABLES
    cl_enabled, cl_count,
    cl_buf,       \* its bytes, and the byte behind it at CL_SIZE
    pending,      \* characters of a key press that are still to come
    eol,          \* what the terminal sends for Enter
    key,          \* history: the last key press
    shown,        \* history: what the screen shows since the last prompt
    ran,          \* history: the last command that was run and the line shown then
    prompts,      \* history: prompts since the last key press
    leaving       \* history: the last key press ran exit

edit  == <<cl_enabled, cl_count, cl_buf>>
user  == <<pending, eol, key>>
cvars == <<edit, user, shown, ran, prompts, leaving>>

NUL == "nul"
CR == "\r"
LF == "\n"
SP == " "
BS == "backspace"
EOF == "Ctrl-D"
FF == "Ctrl-L"
TAB == "tab"
Letter == {EXIT, SAVE, UNKNOWN}

ASSUME CliAssumption ==
    /\ CL_SIZE \in Nat \ {0} /\ EXIT # SAVE
    /\ Letter \cap {NUL, CR, LF, SP, BS, EOF, FF, TAB} = {}

NoCommand == [name |-> << >>, shown |-> << >>]

\* After startup: cl_enabled = 0.
CliInit ==
    /\ cl_enabled = FALSE /\ cl_count = 0
    /\ cl_buf = [i \in 0 .. CL_SIZE |-> NUL]
    /\ pending = << >> /\ eol \in {<<CR>>, <<LF>>, <<CR, LF>>} /\ key = << >>
    /\ shown = << >> /\ ran = NoCommand /\ prompts = 0 /\ leaving = FALSE

\* The user presses a key when the program is done with the one before.
Press(keys) ==
    /\ pending = << >>
    /\ pending' = keys /\ key' = keys
    /\ prompts' = 0 /\ leaving' = FALSE /\ ran' = NoCommand
    /\ UNCHANGED <<edit, eol, shown>>

Fed == Head(pending)

\* A character that is consumed without effect on the editor.
Ignored == UNCHANGED <<edit, shown, ran, prompts, leaving>>

\* cli_prompt.
cli_prompt ==
    /\ cl_count' = 0 /\ cl_enabled' = TRUE
    /\ shown' = << >> /\ prompts' = prompts + 1

\* cli_cmd_exit.
cli_cmd_exit == cl_enabled' = FALSE /\ leaving' = TRUE

\* strtok_s(cl_buf, ' '): the line up to the first space or NUL.
FirstWord(buf) ==
    LET end == CHOOSE n \in 0 .. CL_SIZE :
                 /\ n = CL_SIZE \/ buf[n] \in {SP, NUL}
                 /\ \A m \in 0 .. n - 1 : buf[m] \notin {SP, NUL}
    IN  [i \in 1 .. end |-> buf[i - 1]]

Terminated == [cl_buf EXCEPT ![cl_count] = NUL]

\* A line with something in it: the table is searched for its first word.  Save
\* reboots, or reports an error; then the line buffer is cleared, and a prompt is
\* shown unless the command was exit.
RunLine ==
    LET word == FirstWord(Terminated) IN
    /\ cl_count # 0
    /\ ran' = IF word \in {<<EXIT>>, <<SAVE>>} THEN [name |-> word, shown |-> shown] ELSE ran
    /\ cl_buf' = [i \in 0 .. CL_SIZE |-> IF i = 0 THEN Fed
                                         ELSE IF i < CL_SIZE THEN NUL
                                         ELSE Terminated[CL_SIZE]]
    /\ IF word = <<EXIT>>
       THEN cli_cmd_exit /\ shown' = << >> /\ UNCHANGED <<cl_count, prompts>>
       ELSE cli_prompt /\ leaving' = leaving

\* An empty line; the \n after a \r is not one.
EmptyLine ==
    /\ cl_count = 0
    /\ IF Fed = LF /\ cl_buf[0] = CR
       THEN cl_enabled' = TRUE /\ UNCHANGED <<cl_count, cl_buf, shown, ran, prompts, leaving>>
       ELSE cli_prompt /\ cl_buf' = [cl_buf EXCEPT ![0] = Fed] /\ UNCHANGED <<ran, leaving>>

Enter == Fed \in {CR, LF} /\ (RunLine \/ EmptyLine)

CtrlD ==
    /\ Fed = EOF
    /\ IF cl_count = 0
       THEN cli_cmd_exit /\ UNCHANGED <<cl_count, cl_buf, shown, ran, prompts>>
       ELSE Ignored

ClearScreen ==
    /\ Fed = FF
    /\ cli_prompt /\ UNCHANGED <<cl_buf, ran, leaving>>

\* Fault: the character is taken off the buffer but stays on the screen.
BackspaceFault ==
    /\ Fed = BS
    /\ IF cl_count > 0
       THEN /\ cl_count' = cl_count - 1
            /\ cl_buf' = [cl_buf EXCEPT ![cl_count - 1] = NUL]
            /\ UNCHANGED <<cl_enabled, shown, ran, prompts, leaving>>
       ELSE Ignored

Backspace ==
    /\ Fed = BS
    /\ IF cl_count > 0
       THEN /\ cl_count' = cl_count - 1
            /\ cl_buf' = [cl_buf EXCEPT ![cl_count - 1] = NUL]
            /\ shown' = Front(shown)
            /\ UNCHANGED <<cl_enabled, ran, prompts, leaving>>
       ELSE Ignored

\* A printable character, with its echo; no space in front of a command.
Printable ==
    /\ Fed \in Letter \cup {SP}
    /\ IF cl_count < CL_SIZE /\ ~(cl_count = 0 /\ Fed = SP)
       THEN /\ cl_buf' = [cl_buf EXCEPT ![cl_count] = Fed]
            /\ cl_count' = cl_count + 1
            /\ shown' = Append(shown, Fed)
            /\ UNCHANGED <<cl_enabled, ran, prompts, leaving>>
       ELSE Ignored

\* cli_feed.
cli_feed ==
    /\ pending # << >>
    /\ pending' = Tail(pending) /\ UNCHANGED <<eol, key>>
    /\ IF ~cl_enabled /\ Fed \notin {CR, LF}
       THEN Ignored
       ELSE Enter \/ CtrlD \/ ClearScreen \/ Backspace \/ Printable
              \/ (Fed = TAB /\ Ignored)

Keys == {<<k>> : k \in Letter \cup {SP, BS, EOF, FF, TAB}} \cup {eol}

CliNext == (\E keys \in Keys : Press(keys)) \/ cli_feed

CliSpec == CliInit /\ [][CliNext]_cvars

-----------------------------------------------------------------------------

\* A command runs only if it is the first word of what the screen shows: neither what
\* is left in the buffer after Ctrl-L, backspaces, an overlong line or exit, nor a
\* line end that is still in it, is ever taken for a command.
ShownIsRun ==
    ran # NoCommand =>
        /\ Len(ran.shown) >= 1 /\ SubSeq(ran.shown, 1, 1) = ran.name
        /\ Len(ran.shown) > 1 => ran.shown[2] = SP

\* "Press Enter to enable cmdline.": whatever the terminal sends for it, Enter gives
\* one prompt and leaves the editor enabled with an empty line, unless it ran exit.
EnterOnce ==
    (pending = << >> /\ key = eol /\ ~leaving) => prompts = 1 /\ cl_enabled /\ cl_count = 0

\* "type exit and press Enter [...] to return to the status display".
ExitLeaves == (pending = << >> /\ leaving) => ~cl_enabled

\* cli_feed does what the user sees: it runs the line on the screen, once per Enter.
EnterRunsShown == ShownIsRun /\ EnterOnce
=============================================================================
