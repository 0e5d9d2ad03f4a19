------------------------------- MODULE MCTyping -------------------------------
EXTENDS Typing
(* One session per kind of syntax: quotes and comments, operators and
   redirections, expansions, JavaScript, here-documents, globs. *)
MCAlphabets ==
    { [chars |-> {"a", " ", "'", "\"", "\\", "$", "#", "\n"}, most |-> 5],
      [chars |-> {"a", "1", " ", "&", "|", ">", "<", "("}, most |-> 5],
      [chars |-> {"a", "$", "{", "}", "(", ")", ":", "-"}, most |-> 5],
      [chars |-> {"@", "{", "}", "'", Backtick, "\\", "\n"}, most |-> 5],
      [chars |-> {"<", "a", "\n", "-", "\t"}, most |-> 7],
      [chars |-> {"[", "]", "a", " ", "*", "!", "|"}, most |-> 5] }
=============================================================================
