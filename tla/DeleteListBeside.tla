---------------------------- MODULE DeleteListBeside ----------------------------
(***************************************************************************)
(* The stack with a delete list with variables of its own, which begin     *)
(* with d_: beside the stack with hazard pointers in MCStacks, and in      *)
(* DeleteListStackProofs.                                                  *)
(***************************************************************************)
EXTENDS StackNodes

VARIABLES
    d_head, d_in_loop, d_list, d_heap, d_data, d_next, d_pc, d_node, d_old,
    d_new, d_first, d_last, d_res

DList == INSTANCE DeleteListStack WITH
    head_ <- d_head, thread_in_loop_ <- d_in_loop, to_delete_list_ <- d_list,
    heap <- d_heap, data_ <- d_data, next_ <- d_next, pc <- d_pc,
    node <- d_node, old_head <- d_old, new_head <- d_new, first <- d_first,
    last <- d_last, res <- d_res

\* What is deleted: DeletedUnread of the stack with a delete list.
DeletedUnread == DList!DeletedUnread

\* Where the nodes are: DeleteListAccounted of the stack with a delete list.
DeleteListAccounted == DList!DeleteListAccounted

\* Push and Pop: IsAStack of the stack with a delete list.
DeleteListIsAStack == DList!IsAStack
=================================================================================
