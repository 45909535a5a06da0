----------------------------- MODULE MCLauncher -----------------------------
(* The launches for TLC: a set-up and then the servers, the servers of one  *)
(* side twice, and the set-up with its models twice.                       *)
EXTENDS Launcher

CommandLines ==
  {<<{"--check", "--skip-ml"}, {"--skip-ml"}>>,
   <<{"--frontend-only"}, {"--frontend-only", "--reinstall"}>>,
   <<{"--check", "--backend-only"}, {"--check", "--backend-only", "--reset-db"}>>}

Paths == {<<1>>, <<1, 3>>}

Both == {<<{"--skip-ml"}>>}
=============================================================================
