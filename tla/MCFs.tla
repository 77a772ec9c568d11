-------------------------------- MODULE MCFs --------------------------------
EXTENDS Fs

CONSTANTS p1, p2

Abs(s) == <<"/">> \o s
Call(p, c, path) == <<p, c, path, << >>>>

MCProcs == {p1, p2}

\* A directory is removed while a file is made, opened and removed in it.
Dirs ==
  {Call(p1, "mkdir", Abs(<<"a">>)), Call(p1, "unlink", Abs(<<"a">>)),
   Call(p2, "create", Abs(<<"a", "b">>)), Call(p2, "unlink", Abs(<<"a", "b">>)), Call(p2, "close", <<>>)}

\* Directories are removed under a process that is in them.
Cwds ==
  {Call(p1, "mkdir", Abs(<<"a">>)), Call(p1, "mkdir", Abs(<<"a", "b">>)),
   Call(p1, "unlink", Abs(<<"a">>)), Call(p1, "unlink", Abs(<<"a", "b">>)),
   Call(p2, "chdir", Abs(<<"a", "b">>)), Call(p2, "chdir", <<"..">>), Call(p2, "unlink", <<".">>)}

\* A file gets a second name while both names are removed.
Links ==
  {Call(p1, "create", Abs(<<"a">>)), Call(p1, "close", <<>>), <<p1, "link", Abs(<<"a">>), Abs(<<"b">>)>>,
   Call(p2, "unlink", Abs(<<"a">>)), Call(p2, "unlink", Abs(<<"b">>))}

\* A file is written while it is truncated and removed.
Data ==
  {Call(p1, "create", Abs(<<"a">>)), Call(p1, "write", <<>>), Call(p1, "close", <<>>),
   Call(p2, "trunc", Abs(<<"a">>)), Call(p2, "create-trunc", Abs(<<"a">>)), Call(p2, "close", <<>>),
   Call(p2, "unlink", Abs(<<"a">>))}

\* Devices, reads, and calls that are refused.
Others ==
  {Call(p1, "mknod", Abs(<<"a">>)), Call(p1, "open", Abs(<<"a">>)), Call(p1, "read", <<>>),
   Call(p1, "close", <<>>), Call(p1, "write-only", Abs(<<>>)), Call(p1, "mkdir", Abs(<<>>)),
   Call(p2, "create", Abs(<<"a">>)), Call(p2, "unlink", Abs(<<"a">>)), Call(p2, "close", <<>>),
   <<p2, "link", Abs(<<>>), Abs(<<"b">>)>>}

MCPrograms == {Dirs, Cwds, Links, Data, Others}
=============================================================================
