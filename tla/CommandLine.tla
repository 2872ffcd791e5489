---------------------------- MODULE CommandLine ----------------------------
(***************************************************************************)
(* The command line a Windows process is created with (src/platform/       *)
(* windows/process.cpp): argv goes through one string, which the child's   *)
(* runtime splits again.  A character is a "quote", a "slash" (backslash), *)
(* a "space" or any other.  The splitting is the C runtime's, external.    *)
(***************************************************************************)
EXTENDS Naturals, Sequences, SequencesExt

CONSTANTS Other,    \* a character without a meaning of its own
          MaxArgs, MaxLength

VARIABLE argv       \* the arguments after the program's name

Chars == {"quote", "slash", "space", Other}

Times(n, c) == [i \in 1..n |-> c]

(* Variant: the backslashes at the end of an argument are not doubled. *)
closed_Single(out, slashes) == out \o Times(slashes, "slash") \o <<"quote">>

(* The closing quote: backslashes in front of it are doubled. *)
closed(out, slashes) == out \o Times(slashes * 2, "slash") \o <<"quote">>

(* Wrapped only when it needs it; a run of backslashes doubles before a     *)
(* quote, and the quote is escaped.                                         *)
quote_arg(arg) ==
    LET Put(st, c) ==
            IF c = "slash" THEN [st EXCEPT !.slashes = @ + 1]
            ELSE [out |-> st.out
                       \o Times(IF c = "quote" THEN st.slashes * 2 + 1 ELSE st.slashes, "slash")
                       \o <<c>>,
                  slashes |-> 0]
        done == FoldLeft(Put, [out |-> <<"quote">>, slashes |-> 0], arg)
    IN  IF arg # <<>> /\ {"quote", "space"} \cap ToSet(arg) = {} THEN arg
        ELSE closed(done.out, done.slashes)

(* One space between the arguments, the program's name in front. *)
join_command_line(args) ==
    FoldLeft(LAMBDA out, a : out \o <<"space">> \o quote_arg(a), <<Other>>, args)

(* The child's runtime: 2n backslashes and a quote are n backslashes and a  *)
(* quote that opens or closes, 2n + 1 are n backslashes and a quote itself; *)
(* backslashes elsewhere are themselves; spaces outside quotes separate.    *)
Split(line) ==
    LET Flush(st) == [st EXCEPT !.cur = @ \o Times(st.slashes, "slash"), !.slashes = 0]
        End(st) == IF st.arg THEN [st EXCEPT !.args = Append(@, st.cur), !.cur = <<>>, !.arg = FALSE]
                   ELSE st
        Read(st, c) ==
            CASE c = "slash" -> [st EXCEPT !.slashes = @ + 1, !.arg = TRUE]
              [] c = "quote" ->
                   LET half == [st EXCEPT !.slashes = 0, !.arg = TRUE,
                                          !.cur = @ \o Times(st.slashes \div 2, "slash")]
                   IN  IF st.slashes % 2 = 1 THEN [half EXCEPT !.cur = Append(@, "quote")]
                       ELSE [half EXCEPT !.quoted = ~@]
              [] c = "space" /\ ~st.quoted -> End(Flush(st))
              [] OTHER -> [Flush(st) EXCEPT !.cur = Append(@, c), !.arg = TRUE]
    IN  End(Flush(FoldLeft(Read, [args |-> <<>>, cur |-> <<>>, arg |-> FALSE,
                                  quoted |-> FALSE, slashes |-> 0], line))).args

(* Every argv within the bounds, one character or one argument at a time. *)
CommandInit == argv = <<>>
CommandNext ==
    \/ Len(argv) < MaxArgs /\ argv' = Append(argv, <<>>)
    \/ /\ argv # <<>> /\ Len(argv[Len(argv)]) < MaxLength
       /\ \E c \in Chars : argv' = [argv EXCEPT ![Len(argv)] = Append(@, c)]

-----------------------------------------------------------------------------
(* The child sees the arguments it was given, whatever they hold: empty     *)
(* ones, spaces, quotes, and backslashes before a quote or at the end.      *)
ArgumentsArrive == Split(join_command_line(argv)) = <<<<Other>>>> \o argv
=============================================================================
