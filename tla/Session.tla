----------------------------- MODULE Session -------------------------------
(***************************************************************************)
(* What the user sits at: the desktop and its windows, the way of the keys *)
(* to a command, the accounts and the login screen, and programs.  They    *)
(* share no state that a property is about, so a behaviour is one of a     *)
(* single part, and part, set at the start, says of which.                 *)
(***************************************************************************)
EXTENDS Desktop

CONSTANTS
  Ring, MaxTyped,                                         \* of Keyboard
  Names, Words, MaxUsers, Timeout, TickWords, MaxElapsed, \* of Accounts
  Factors, MaxStack, Attribs, Textures, Vertices, Depths, MaxCalls,  \* of AurionGL
  Tags, MaxNodes, MaxOpen, MaxLists,                      \* of Document
  Sites, MaxTabs, MaxHistory, MaxBookmarks, MaxDepth, Blocks, MaxLost, \* of Browser
  MaxChars, MaxClip,                                      \* of Notepad
  Columns, Rows, Beyond, Colors, White, Brushes,          \* of Paint
  Grid, MaxLength, MaxScore,                              \* of Snake
  Dirs, Files, MaxBack, MaxEntries, Visible,              \* of Explorer
  Goals, MaxTargets, MaxCommands, MaxDeps, MaxMakes,      \* of Make
  Digits, MaxTyping, Decimals, MaxValue,                  \* of Calculator
  Height, Wide, TabStop, Letter, MaxLine, MaxKept, MaxCopied, Scrolled, MaxActions, \* of Terminal
  FewLines, MaxStarts, Width, MaxSettings                 \* of ShellTools

(* The values that are not numbers of things.                               *)
CONSTANTS
  Hash, Starts,                                           \* of Accounts
  Foods,                                                  \* of Snake
  AtFirst,                                                \* of Explorer
  Makefiles,                                              \* of Make
  Prints, Points,                                         \* of Terminal
  Texts, Patterns, Settable, Long, CutName, Contents       \* of ShellTools

(* The login names "root" and its password exist; "nobody" is nobody's name; *)
(* the machine is not watched for longer than the tick counter's period.     *)
ASSUME AccountsAssumption ==
  /\ "root" \in Names /\ "nobody" \notin Names /\ "root" \in Words
  /\ MaxUsers \in Nat \ {0} /\ Timeout \in Nat
  /\ TickWords \in Nat \ {0} /\ Starts \subseteq Nat
  /\ MaxElapsed \in Nat /\ MaxElapsed < TickWords

(* The ring of the keyboard has a cell.                                     *)
ASSUME KeyboardAssumption == Ring \in Nat \ {0} /\ MaxTyped \in Nat

(* Notepad's text and the clipboard have a size; a browser has a tab, and   *)
(* no block is numbered as none; the curled snake is on the board and not   *)
(* too long; a list of files shows a row, and its directory has finitely    *)
(* many.                                                                    *)
ASSUME PadAssumption == MaxChars \in Nat /\ MaxClip \in Nat
ASSUME BrowserAssumption == MaxTabs \in Nat \ {0} /\ 0 \notin Blocks
ASSUME GameAssumption == Grid \in Nat /\ 4 <= Grid /\ MaxLength \in Nat /\ 3 <= MaxLength
ASSUME ExplorerAssumption ==
  /\ IsFiniteSet(Dirs \cup Files) /\ AtFirst \subseteq Seq(Dirs \cup Files)
  /\ MaxBack \in Nat \ {0} /\ Visible \in Nat \ {0}

(* The renderer has a table of textures; the page has room for what is      *)
(* open, and at most so many nodes and lists.                               *)
ASSUME RendererAssumption == Textures \in Nat
ASSUME DocumentAssumption ==
  MaxNodes \in Nat /\ MaxOpen \in Nat \ {0} /\ MaxLists \in Nat

VARIABLES
  part,
  ring, head, tail, typed, mailbox, focus, phase, got, asked,
  users, user, profile, start, now, grace, asRoot, screen, inside, proof,
  on, mode, matrix, stack, mvp, caps, error, saved, prim, vertices, bound, next,
  slot, blocks, freed, depth, pixel, calls,
  browsers, tab, nodes, tabs, active, history, pos, marks, disk, bar, request,
  heap, lost, shared, shifted,
  node, open, counter, lists, closing, tidy,
  len, cursor, from, to, clip, named, file, modified, asking, answer, popup,
  kept, stale,
  canvas, color, brush, drawing, place, stroke,
  body, dir, food, over, easy, score,
  listed, drawn, path, back, entries, selected, scroll, last,
  makefile, rules, macros, current, nextLine, default, goal, building, ran,
  makePc, outcome, makes,
  display, stored, operator, fresh, pressed,
  term, termClip, termMenu, lastLeft, lastRight, commands, events,
  tool, text, other, j, lineCount, words, inw, ls, starts, rest, divisor, orig, printed, done,
  environment, meant, settings

keyVars == <<ring, head, tail, typed, mailbox, focus, phase, got, asked>>
whoVars == <<users, user, profile, start, now, grace, asRoot, screen, inside, proof>>
glVars == <<on, mode, matrix, stack, mvp, caps, error, saved, prim, vertices,
            bound, next, slot, blocks, freed, depth, pixel, calls>>
webVars == <<browsers, tab, nodes, tabs, active, history, pos, marks, disk, bar,
             request, heap, lost, shared, shifted>>
docVars == <<node, open, counter, lists, closing, tidy>>
padVars == <<len, cursor, from, to, clip, named, file, modified, asking, answer,
             popup, kept, stale>>
artVars == <<canvas, color, brush, drawing, place, stroke>>
gameVars == <<body, dir, food, over, easy, score>>
dirVars == <<listed, drawn, path, back, entries, selected, scroll, last>>

makeVars == <<makefile, rules, macros, current, nextLine, default, goal, building,
              ran, makePc, outcome, makes>>
calcVars == <<display, stored, operator, fresh, pressed>>
termVars == <<term, termClip, termMenu, lastLeft, lastRight, commands, events>>
toolVars == <<tool, text, other, j, lineCount, words, inw, ls, starts, rest, divisor, orig, printed,
              done, environment, meant, settings>>
Typing == INSTANCE Keyboard
Who == INSTANCE Accounts
GL == INSTANCE AurionGL WITH count <- vertices
Page == INSTANCE Document WITH stack <- open
Web == INSTANCE Browser WITH windows <- browsers, count <- tabs
Pad == INSTANCE Notepad
         WITH dialog <- asking, typed <- answer, menu <- popup, saved <- kept
Art == INSTANCE Paint
Game == INSTANCE Snake
Dir == INSTANCE Explorer WITH table <- listed
Build == INSTANCE Make
           WITH file <- makefile, targets <- rules, values <- macros, line <- nextLine,
                stack <- building, log <- ran, pc <- makePc, result <- outcome,
                calls <- makes, MaxCalls <- MaxMakes
Calc == INSTANCE Calculator WITH MaxLength <- MaxTyping
Shell == INSTANCE Terminal
           WITH Rows <- Height, Columns <- Wide, Tab <- TabStop, Characters <- Letter,
                MaxInput <- MaxLine, MaxHistory <- MaxKept, MaxClip <- MaxCopied,
                PageRows <- Scrolled, MaxEvents <- MaxActions,
                clip <- termClip, menu <- termMenu, prevLeft <- lastLeft, prevRight <- lastRight, ran <- commands
Tools == INSTANCE ShellTools
           WITH lines <- lineCount, out <- printed, entries <- environment,
                n <- rest, d <- divisor

Of(p) == part = p /\ part' = p

Parts == {"desktop", "keyboard", "accounts", "renderer", "browser", "document",
          "notepad", "paint", "snake", "explorer", "make", "calculator",
          "terminal", "tools"}

Starting ==
  /\ Init /\ Typing!Init /\ Who!Init /\ GL!Init /\ Web!Init /\ Page!Init
  /\ Pad!Init /\ Art!Init /\ Game!Init /\ Dir!Init
  /\ Build!Init /\ Calc!Init /\ Shell!Init /\ Tools!Init

SessionInit == part \in Parts /\ Starting

programs == <<keyVars, whoVars, glVars, webVars, docVars>>
windows == <<padVars, artVars, gameVars, dirVars>>
shell == <<termVars, toolVars>>
tools == <<makeVars, calcVars, shell>>
others == <<windows, tools>>

DesktopNext == Of("desktop") /\ Next /\ UNCHANGED <<programs, others>>
KeyboardNext == Of("keyboard") /\ Typing!Next /\ UNCHANGED <<vars, whoVars, glVars, webVars, docVars, others>>
AccountsNext == Of("accounts") /\ Who!Next /\ UNCHANGED <<vars, keyVars, glVars, webVars, docVars, others>>
RendererNext == Of("renderer") /\ GL!Next /\ UNCHANGED <<vars, keyVars, whoVars, webVars, docVars, others>>
BrowserNext == Of("browser") /\ Web!Next /\ UNCHANGED <<vars, keyVars, whoVars, glVars, docVars, others>>
DocumentNext == Of("document") /\ Page!Next /\ UNCHANGED <<vars, keyVars, whoVars, glVars, webVars, others>>
NotepadNext == Of("notepad") /\ Pad!Next /\ UNCHANGED <<vars, programs, artVars, gameVars, dirVars, tools>>
PaintNext == Of("paint") /\ Art!Next /\ UNCHANGED <<vars, programs, padVars, gameVars, dirVars, tools>>
SnakeNext == Of("snake") /\ Game!Next /\ UNCHANGED <<vars, programs, padVars, artVars, dirVars, tools>>
ExplorerNext == Of("explorer") /\ Dir!Next /\ UNCHANGED <<vars, programs, padVars, artVars, gameVars, tools>>
MakeNext == Of("make") /\ Build!Next /\ UNCHANGED <<vars, programs, windows, calcVars, shell>>
CalculatorNext == Of("calculator") /\ Calc!Next /\ UNCHANGED <<vars, programs, windows, makeVars, shell>>
TerminalNext == Of("terminal") /\ Shell!Next /\ UNCHANGED <<vars, programs, windows, makeVars, calcVars, toolVars>>
ToolsNext == Of("tools") /\ Tools!Next /\ UNCHANGED <<vars, programs, windows, makeVars, calcVars, termVars>>

Terminal == part = "keyboard" /\ Typing!Terminal

all == <<part, vars, programs, others>>

SessionNext ==
  \/ DesktopNext \/ KeyboardNext \/ AccountsNext \/ RendererNext \/ BrowserNext
  \/ DocumentNext \/ NotepadNext \/ PaintNext \/ SnakeNext \/ ExplorerNext
  \/ MakeNext \/ CalculatorNext \/ TerminalNext \/ ToolsNext
SessionSpec == SessionInit /\ [][SessionNext]_all /\ WF_keyVars(Terminal)

(* Keyboard: keys are lost on the way, but never reordered or seen twice.   *)
KeysInOrder == Typing!KeysInOrder

(* Keyboard: a command that waits for a key gets those that have come.      *)
WaitEnds == Typing!WaitEnds

(* Accounts: there is a root, and no two accounts share a name.             *)
TableSound == Who!TableSound

(* Accounts: SUDO without a password is less than Timeout after a proof.    *)
GraceIsEarned == Who!GraceIsEarned

(* AurionGL: vertices see the matrices the caller sees, textures keep their *)
(* data.  Browser: texts belong to one tab each, tabs show their page.      *)
(* Document: the tree is built at open elements, items count from one.      *)
(* Notepad: the cursor is in the text, what is unmarked is saved.  Snake:   *)
(* it is one piece.  Explorer: Back leads up.                               *)
ProgramsSound ==
  /\ part = "renderer" => GL!ContextSound
  /\ part = "browser" => Web!ContentOwned
  /\ part = "document" => Page!TreeSound
  /\ part = "notepad" => Pad!EditSound
  /\ part = "snake" => Game!SnakeSound
  /\ part = "explorer" => Dir!WaySound
=============================================================================
