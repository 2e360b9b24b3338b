--------------------------- MODULE MCCommandLine ---------------------------
(* Short lines of kcsh for TLC.                                            *)
EXTENDS CommandLine, SequencesExt

\* All short lines, and some that need more words: pipelines in the background
\* and several redirections.
W == Plain
MCLines ==
  BoundedSeq(Separators \cup {W}, 4)
    \cup {<<W, "|", W, "|", W, "&">>, <<W, "|", W, "&", W, "|", W>>,
          <<W, ";", W, ";", W, ";", W>>, <<W, ">", ">", W, "<", W>>,
          <<W, "<", W, ">", W, "&", W>>, <<W, "|", W, ">", W, "|", W>>,
          <<W, ";", W, ";", W, ">">>, <<W, ";", W, ";", W, "|">>}
=============================================================================
