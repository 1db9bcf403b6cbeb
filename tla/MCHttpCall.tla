----------------------------- MODULE MCHttpCall -----------------------------
EXTENDS HttpCall

\* One user on two devices in sessions of their own and on a third with only a
\* credential; and two clients nothing tells apart.
Person(device, user, credential, session) ==
    [device |-> device, user |-> user, tenant |-> None, credential |-> credential,
     session |-> session]
Laptop == Person("laptop", "ada", "token_a", "s1")
Desk   == Person("desk", "ada", "token_a", "s2")
Phone  == Person("phone", "ada", "token_b", None)
Anon1  == Person("anon1", None, None, None)
Anon2  == Person("anon2", None, None, None)

MCClients == {Laptop, Desk, Phone, Anon1, Anon2}

Call(client, stream, event, notes, asks) ==
    [client |-> client, id |-> 1, stream |-> stream, event |-> event,
     notes |-> notes, asks |-> asks]

MCCalls == { Call(Laptop, TRUE, TRUE, 1, 1), Call(Anon1, FALSE, FALSE, 0, 0) }
MCRequests == Calls \cup Rest
=============================================================================
