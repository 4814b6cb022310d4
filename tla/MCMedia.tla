------------------------------- MODULE MCMedia -------------------------------
(***************************************************************************)
(* A gallery of two at most and two requests that may run together, one    *)
(* failing call and one restart; a clip longer than is accepted and a      *)
(* picture of a format that is not.                                        *)
(***************************************************************************)
EXTENDS Media

MCMediaIds == 1..3
Photo == [type |-> "image", size |-> 1, format |-> "jpeg", seconds |-> 0]
Clip == [type |-> "video", size |-> 2, format |-> "video", seconds |-> 60]

Long == [Clip EXCEPT !.seconds = 61]

MCUploads == {Photo, [Photo EXCEPT !.format = "svg"], [Photo EXCEPT !.size = 2],
              Clip, [Clip EXCEPT !.size = 3]}

MCMixes ==
    {[kinds |-> {"add", "remove"}, held |-> <<Photo, Clip>>],
     [kinds |-> {"up", "remove"}, held |-> <<Photo, Photo>>],
     [kinds |-> {"add", "down"}, held |-> <<Photo>>],
     [kinds |-> {"removeListing"}, held |-> <<Clip, Photo>>],
     [kinds |-> {"add", "removeListing"}, held |-> <<Long>>],
     [kinds |-> {"icon"}, held |-> <<>>],
     [kinds |-> {"banner"}, held |-> <<>>]}
=============================================================================
