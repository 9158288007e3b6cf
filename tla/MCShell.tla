------------------------------- MODULE MCShell -------------------------------
(* The files, and the shell's way from a stroke to a command, one part at a
   time: a state belongs to one part, and only the actions of that part are
   taken in it. *)
EXTENDS Descriptors, Ext2, Keyboard, LineEditor, CommandLine, Paths

VARIABLE part

\* Four uses of the files: calls on the tree alone, files opened one at a time, written
\* and deleted, the bytes of a pipe, and the descriptors of two processes.
FileParts == {"tree", "data", "bytes", "descriptors"}

\* A directory with permissions and a file in it
Disk == <<[path |-> <<2>>, dir |-> TRUE, perm |-> 7, size |-> 0],
          [path |-> <<2, 1>>, dir |-> FALSE, perm |-> 6, size |-> 1]>>
SomePaths == {<<1>>, <<2>>, <<3>>, <<2, 1>>, <<3, 1>>}
SomeLinks == {<< <<2, 1>>, <<1>> >>}

DataPaths == {<<1>>, <<2, 1>>}

ShellParts == {"disk", "keyboard", "editor", "commands", "paths"}

shellVars == <<ext2Vars, keyboardVars, editorVars, commandVars, pathVars>>

\* Chains of up to four commands and pipelines of up to three stages.
MCScripts ==
    UNION {Chains(Plain, n) : n \in 1 .. 4}
    \union Chains(Plain \union Tricky, 2)
    \union UNION {Pipelines(Plain \union Tricky, n) : n \in 1 .. 3}

\* What the parts that are not looked at begin with.
SomeScript == script = (CHOOSE s \in Pipelines(Plain, 1) : TRUE) /\ outcome = NotRun
NoPath == cwd = Dot /\ path = <<>> /\ answer = NoAnswer
NoDisk == disk = 0 /\ counts = 0 /\ numbers = 0 /\ calls = 0 /\ faults = 0 /\ kept = 0

ShellInit ==
    /\ Init /\ part \in FileParts \union ShellParts
    /\ IF part = "disk" THEN Ext2Init ELSE NoDisk
    /\ KeyboardInit /\ (part # "keyboard" => reader.who = "shell")
    /\ EditorInit
    /\ IF part = "commands" THEN CommandInit ELSE SomeScript
    /\ IF part = "paths" THEN PathsInit ELSE NoPath

\* A directory, a file in it and one beside it.
MCDiskPaths == {<<"a">>, <<"b">>, <<"a", "b">>}

FilesNext ==
  /\ UNCHANGED part
  /\ \/ part = "tree" /\ DentriesLeft(fs) /\ TreeCall(Paths)
     \/ part = "data" /\ \/ NodeCall({<<1>>}) \/ Chmod(<<2, 1>>, 0)
                         \/ files[0] = NoHandle /\ OpenCall(1, DataPaths)
                         \/ FileCall(1) \/ syscall_close(1, 0)
     \/ part = "bytes" /\ \/ pipe_table[0] = FreePipe /\ syscall_pipe(1)
                          \/ \E d \in Fds : \/ syscall_close(1, d)
                                            \/ \E n \in Sizes : UsePipe(1, d, n)
     \/ part = "descriptors" /\
           \/ FdCall(1)
           \/ \E p \in Procs :
                \/ syscall_open(p, <<2, 1>>, "r", TRUE) \/ ProcessEnds(p)
                \/ syscall_pipe(p) \/ \E d \in Fds : syscall_close(p, d)
           \/ \E d \in Fds : IsPipe(fd_table[1][d]) /\ fd_table[1][d].end = "r" /\ UsePipe(1, d, 1)

ConsoleNext ==
    \/ part = "keyboard" /\ KeyboardNext /\ UNCHANGED <<editorVars, commandVars, pathVars>>
    \/ part = "editor" /\ EditorNext /\ UNCHANGED <<keyboardVars, commandVars, pathVars>>
    \/ part = "commands" /\ shell_execute_command /\ UNCHANGED <<keyboardVars, editorVars, pathVars>>
    \/ part = "paths" /\ ResolvePath /\ UNCHANGED <<keyboardVars, editorVars, commandVars>>

ShellNext ==
    \/ FilesNext /\ UNCHANGED shellVars
    \/ ConsoleNext /\ UNCHANGED <<vars, part, ext2Vars>>
    \/ part = "disk" /\ Ext2Next
       /\ UNCHANGED <<vars, part, keyboardVars, editorVars, commandVars, pathVars>>

ShellSpec == ShellInit /\ [][ShellNext]_<<vars, part, shellVars>>

\* The tree is what its directories say, and every open file and pipe end is counted
\* as often as it is held (vfs_core.c, fd.c, pipe.c).
FilesSound == part \in FileParts => TreeSound /\ HandlesCounted

\* In disk mode, failing writes and restarts included (ext2.c, vfs_core.c).
FilesOnDiskSound == part = "disk" => DiskSound

\* What is typed reaches its reader in order, and the row of the screen shows what the
\* line has become and nothing else (keyboard.c:56-233, shell.c:536-628).
ConsoleExact == (part = "keyboard" => KeysInOrder) /\ (part = "editor" => ScreenShowsLine)

\* A line is run as its author meant it, and the paths in it lead where a walk along
\* them does (shell_execute_command, path_resolve).
CommandsUnderstood == LinesRunAsMeant /\ PathsLeadRight
=============================================================================
