--------------------------- MODULE MCUartReceiver ---------------------------
EXTENDS UartReceiver

Nothing == [processes |-> 0, moves |-> 0, menus |-> 0, noise |-> 0, losses |-> 0, commands |-> 0,
            sessions |-> 0, logs |-> 0, buttons |-> 0, quiet |-> 0]

\* Four kinds of behaviours: processes while commands are answered, the link with noise,
\* silence and losses, losses around a journal session, and losses while others' commands
\* fill the queue.
MCBudgets ==
    {[Nothing EXCEPT !.processes = 2, !.moves = 2, !.commands = 1],
     [Nothing EXCEPT !.processes = 1, !.moves = 4],
     [Nothing EXCEPT !.noise = 1, !.losses = 1],
     [Nothing EXCEPT !.noise = 1, !.quiet = 2],
     [Nothing EXCEPT !.losses = 1, !.sessions = 1],
     [Nothing EXCEPT !.sessions = 1, !.logs = 1],
     [Nothing EXCEPT !.losses = 1, !.commands = 1],
     [Nothing EXCEPT !.buttons = 1, !.menus = 1]}

MCStages == <<"tp1_waiting", "heads">>
MCValves == <<1, 1, 1>>
MCLossBudget == {[Nothing EXCEPT !.losses = 1, !.sessions = 1]}
=============================================================================
