-------------------------- MODULE ClientApplication --------------------------
(* The class ClientApplication: which screen a client shows, what a packet   *)
(* does to it, and the Game behind it.  The screens are told apart by what   *)
(* the player can do on them; drawing and fonts are left out.                *)
EXTENDS Game

Screens == {"identification", "menu", "lobby", "none"}

Client == [open : BOOLEAN,            \* window_
           identified : BOOLEAN,      \* state_ has left kUserIdentification
           gui : Screens,             \* current_gui_
           game : Game,               \* game_; game_.playing is kInGame
           player_index : Player,     \* game_.player_index_
           tables : Nat,              \* history: InitGame since the last Deinit
           match : Nat]               \* history: the number of its last game

NewClient ==
  [open |-> TRUE, identified |-> FALSE, gui |-> "identification",
   game |-> NewGame(0), player_index |-> 0, tables |-> 0,
   match |-> 0]

(* A player who has entered a name some time ago.                            *)
MenuClient == [NewClient EXCEPT !.identified = TRUE, !.gui = "menu"]

InGame(client) == client.game.playing

(* The packet changes the screen before the game gets it.                    *)

OnJoinLobby(client) == [client EXCEPT !.gui = "lobby"]

OnIdentification(client) ==
  [client EXCEPT !.identified = TRUE, !.gui = "menu", !.game.playing = FALSE]

(* Wrong on purpose: the screen stays over the game.                         *)
OnStartGameKeepsScreen(client, p, match) ==
  [client EXCEPT !.game = InitGame(@), !.player_index = p,
                 !.tables = @ + 1, !.match = match]

OnStartGame(client, p, match) ==
  [client EXCEPT !.gui = "none", !.game = InitGame(@), !.player_index = p,
                 !.tables = @ + 1, !.match = match]
=============================================================================
