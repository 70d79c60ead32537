------------------------------ MODULE MCFrontEnd ------------------------------
EXTENDS FrontEnd

\* What is kept and not looked at again is no difference: the menu behind the quit
\* menu when that is not open, or was not opened over one; and which menu it was,
\* when the keys do not go to the menus, except that the quit menu is not opened
\* over itself.
MCView ==
    <<key_dest, IF key_dest = "menu" \/ m_state = "quit" THEN m_state ELSE "other",
      m_state = "quit" /\ wasInMenus,
      IF m_state = "quit" /\ wasInMenus THEN m_quit_prevstate ELSE "none",
      bind_grab, m_save_demonum, cls, cbuf, phase>>
===============================================================================
