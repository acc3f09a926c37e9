------------------------------ MODULE MCCommands ------------------------------
(* Every command with its arguments taken from paths that are, or nearly are, files of each other. *)
EXTENDS Commands

X == <<"x", ".sqlite">>
Y == <<"y", ".sqlite">>
D == <<"d">>

MCPieces == OwnPieces \cup {"x", "y", "d"}
MCDotted == {".sqlite", ".diaphora", ".ingest", ".json", ".export", ".tmp", ".dsig-tmp", ".dsig-results-tmp", ".dsig-old",
             ".tmp-pid"}

Files == {X, Y, Append(X, "-wal"), <<"x", ".diaphora">>, UpdateExportPath(X), TemporaryOutputPath(X),
          Append(X, ".tmp"), Append(X, "-wal") \o <<".dsig-old">>,
          Under(D, "index.json"), Under(D, "manifest.json"), SnapshotFile(D)}

Optional(s) == s \cup {None}

Lines(kinds, firsts, seconds, thirds, outs, traces, snaps, ckpts, keeps) ==
    [kind : kinds, first : firsts, second : seconds, third : thirds, out : outs, trace : traces,
     snap : snaps, ckpt : ckpts, keep : keeps, foreign : {FALSE}]

MCCommandLines ==
    Lines({"diff"}, Files, {Y}, {None}, Files, Optional(Files), Optional({D}), {None}, {TRUE})
    \cup Lines({"diff"}, Files, {Y}, {None}, Files, {None, X}, Optional({D}), {D, SnapshotFilesDir(D)}, {TRUE})
    \cup Lines({"replay"}, {X}, {Y}, Files, Files, {None, X}, Optional({D}), {None, D}, {TRUE})
    \cup Lines({"port"}, Files, {Y, X}, Optional(Files), Files, {None}, {None}, {None}, BOOLEAN)
    \cup Lines({"port"}, {<<"x", ".diaphora", ".tmp-pid">>}, {Y}, {None}, {X}, {None}, {None}, {None}, BOOLEAN)
    \cup Lines({"update"}, Files, Files, Optional({X, Y}), Files, {None}, {None}, {None}, {TRUE})
    \cup [kind : {"diff"}, first : {X}, second : {Y}, third : {None}, out : {<<"x", ".diaphora">>},
          trace : {None}, snap : {D}, ckpt : {None}, keep : {TRUE}, foreign : {TRUE}]
=============================================================================
