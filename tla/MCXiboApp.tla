----------------------------- MODULE MCXiboApp -----------------------------
EXTENDS XiboApp
Zmq == [host |-> "cms", type |-> "zmq", address |-> "", key |-> ""]
MCSettings == {Zmq,
               [Zmq EXCEPT !.host = "cms2", !.type = "ws"],
               [Zmq EXCEPT !.host = "cms2", !.type = "ws", !.address = "wss"],
               [Zmq EXCEPT !.host = "DISABLED", !.type = ""]}
MCMessages == {[action |-> "screenShot", downloadRequired |-> FALSE, expired |-> FALSE],
               [action |-> "changeLayout", downloadRequired |-> TRUE, expired |-> FALSE],
               [action |-> "collectNow", downloadRequired |-> FALSE, expired |-> TRUE]}
MCRequests == {[method |-> "post", path |-> "trigger", readable |-> TRUE],
               [method |-> "get", path |-> "info", readable |-> TRUE]}
=============================================================================
