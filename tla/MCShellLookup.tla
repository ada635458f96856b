---------------------------- MODULE MCShellLookup ----------------------------
(* Two shells; $SHELL unset, with a last component, ending with a slash;     *)
(* every first line of up to three tokens, and lines as long as those bash,  *)
(* zsh and fish answer, with up to two changes in them.                      *)
EXTENDS ShellLookup

MCEnvs == {<<>>, <<"bin", "zsh">>, <<"bin", "">>}

Bash == <<"GNU", "blank", "word", "comma", "blank", "version", "blank", "digit",
          "paren", "digit", "blank", "paren">>
Fish == <<"word", "comma", "blank", "version", "blank", "digit">>
Zsh  == <<"word", "blank", "digit", "blank", "paren", "word", "digit">>

\* l with one token replaced.
Changed(l) == {[l EXCEPT ![j] = t] : j \in DOMAIN l, t \in Token}

MCLines ==
  BoundedSeq(Token, 3)
    \cup UNION {{l} \cup Changed(l) : l \in Changed(Fish) \cup Changed(Zsh)}
    \cup Changed(Bash)
=============================================================================
