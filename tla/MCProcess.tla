------------------------------ MODULE MCProcess ------------------------------
(* A small instance of Process.  One key is the beginning of another, two   *)
(* clients may hold one key; settings are a sound one and what can be wrong *)
(* with it, one thing at a time, with every source of the upstream key.     *)
(* The third key is part of the mark.                                       *)
EXTENDS Process

CONSTANTS a, b, x, p, q, s, r1, r2

short == <<a>>
long == <<a, b>>
other == <<b>>
mcKeys == {short, long, other}
mcMark == <<x, b>>
C(name, key) == [kind |-> "client", client |-> [name |-> name, key |-> key]]
Other(kind) == [kind |-> kind]

KeyFile(state, value) == [state |-> state, value |-> value]
Sound == [address |-> "loopback", allowExternal |-> FALSE, directory |-> TRUE,
          keyEnv |-> short, keyFile |-> KeyFile("unnamed", <<>>), keyCommand |-> FALSE,
          clientEnv |-> <<C(p, long), Other("skipped"), C(q, long), C(s, other)>>,
          clientFile |-> [state |-> "unnamed", items |-> <<>>]]
WithClients(env, file) ==
    [Sound EXCEPT !.keyEnv = long, !.clientEnv = env,
                  !.clientFile = [state |-> "owner-only", items |-> file]]
mcFiles == {KeyFile("unnamed", <<>>), KeyFile("missing", <<>>), KeyFile("shared", other),
            KeyFile("owner-only", <<>>), KeyFile("owner-only", long)}

mcSettings ==
    {Sound, [Sound EXCEPT !.directory = FALSE], [Sound EXCEPT !.clientFile.state = "missing"],
     [WithClients(<<C(p, long)>>, <<C(q, other)>>) EXCEPT !.clientFile.state = "shared"]}
    \cup {[Sound EXCEPT !.address = addr, !.allowExternal = allow] :
             addr \in {"other", "malformed"}, allow \in BOOLEAN}
    \cup {[Sound EXCEPT !.keyEnv = key, !.keyFile = file, !.keyCommand = cmd,
                        !.clientEnv = <<C(p, long)>>] :
             key \in {<<>>, short}, file \in mcFiles, cmd \in BOOLEAN}
    \cup {WithClients(<<C(p, short)>>, <<C(q, long)>>), WithClients(<<C(p, short)>>, <<C(p, long)>>),
          WithClients(<<>>, <<Other("skipped")>>), WithClients(<<C(NoName, short)>>, <<>>),
          WithClients(<<>>, <<C(p, <<>>)>>), WithClients(<<C(p, short)>>, <<Other("word")>>)}

Body(message, nested, detail) == [message |-> message, nested |-> nested, detail |-> detail]
mcReplies == {Body(<<>>, <<>>, <<a, b, b>>), Body(<<>>, <<b, a, a, b>>, <<b>>),
              Body(<<a, b, a, b>>, <<a>>, <<>>), Body(<<>>, <<>>, <<>>)}
=============================================================================
